---- MODULE Spec2Model ----
(***************************************************************************)
(* Model of the freshness-assessment pipeline of NEURALROOTSAI:            *)
(* backend/app/agents/workflow_orchestrator.py (WorkflowOrchestrator) and  *)
(* the agents it drives (backend/app/agents/logistics_agent.py).           *)
(*                                                                         *)
(* Numbers.  Python floats are modelled in fixed point:                    *)
(*   - a freshness score is an integer number of thousandths ("milli"),    *)
(*     so 79.996 is 79996 and the threshold 80 is 80000;                   *)
(*   - a value the code rounds with round(x, 2) is reported in hundredths  *)
(*     ("centi"), so 80.0 is 8000;                                         *)
(*   - a degradation rate is in milli-points per hour, a duration in       *)
(*     hundredths of an hour.                                              *)
(* Python dicts are TLA+ functions with string domains: a key that is      *)
(* absent from the dict is absent from the DOMAIN, and dict.get(k, d) is   *)
(* DictGet.  Python's None is the value None below; a number that may be   *)
(* None is wrapped as Num(n).                                              *)
(***************************************************************************)
EXTENDS Integers, Sequences, FiniteSets, TLC

\* ------------------------------------------------------------------------
\* Bounds of the model
\* ------------------------------------------------------------------------

\* Number of execute_workflow invocations explored on one orchestrator.
MaxInvocations == 2

\* Number of forecast periods get_mock_forecast generates in the model (the
\* code generates 40, line 266).
MockPeriods == 2

\* ------------------------------------------------------------------------
\* Python values
\* ------------------------------------------------------------------------

None == [none |-> TRUE]

Num(n) == [num |-> n]

IsNone(x) == "none" \in DOMAIN x

IsNum(x) == "num" \in DOMAIN x

EmptyDict == << >>

\* dict.get(key, default)
DictGet(d, key, default) == IF key \in DOMAIN d THEN d[key] ELSE default

\* d[key] = value on a dict (adds the key or overwrites it)
DictSet(d, key, value) == (key :> value) @@ d

\* round(x, 2) of a non-negative score given in thousandths, in hundredths.
\* A tie (last digit 5) goes to the even neighbour.
Round2(x) ==
    LET q == x \div 10
        r == x % 10
    IN  IF r < 5 THEN q
        ELSE IF r > 5 THEN q + 1
        ELSE IF q % 2 = 0 THEN q ELSE q + 1

Min(a, b) == IF a <= b THEN a ELSE b

Max(a, b) == IF a >= b THEN a ELSE b

\* n / d rounded to the nearest integer, a tie going to the even neighbour
\* (d > 0; \div rounds down and % is never negative): round(n / d) of Python.
RoundDiv(n, d) ==
    LET q == n \div d
        r == 2 * (n % d)
    IN  IF r < d THEN q
        ELSE IF r > d THEN q + 1
        ELSE IF q % 2 = 0 THEN q ELSE q + 1

\* ------------------------------------------------------------------------
\* LogisticsAgent (backend/app/agents/logistics_agent.py)
\* ------------------------------------------------------------------------

FreshnessLevels == {"EXCELLENT", "GOOD", "FAIR", "POOR", "CRITICAL"}

DeliveryModes == {"cold_chain", "refrigerated", "standard"}

\* self.delivery_modes[mode]["cost_multiplier"], in tenths
CostMultiplier10(mode) ==
    CASE mode = "cold_chain" -> 15
      [] mode = "refrigerated" -> 13
      [] mode = "standard" -> 10

\* self.delivery_modes[mode]["temp_control"]
TempControl(mode) == mode \in {"cold_chain", "refrigerated"}

\* speed_map.get(required_mode, 70), km/h
SpeedOf(mode) ==
    CASE mode = "cold_chain" -> 60
      [] mode = "refrigerated" -> 70
      [] mode = "standard" -> 80
      [] OTHER -> 70

\* Mutant of RequiredMode: GOOD produce travels like EXCELLENT produce.
RequiredModeGoodStandard(freshness_level) ==
    IF freshness_level \in {"POOR", "CRITICAL"} THEN "cold_chain"
    ELSE IF freshness_level = "FAIR" THEN "refrigerated"
    ELSE "standard"

RequiredMode(freshness_level) ==
    IF freshness_level \in {"POOR", "CRITICAL"} THEN "cold_chain"
    ELSE IF freshness_level = "FAIR" THEN "refrigerated"
    ELSE IF freshness_level = "GOOD" THEN "refrigerated"
    ELSE "standard"

RequiredUrgency(freshness_level) ==
    IF freshness_level \in {"POOR", "CRITICAL"} THEN "IMMEDIATE"
    ELSE IF freshness_level = "FAIR" THEN "HIGH"
    ELSE "NORMAL"

_get_alternative_modes(primary_mode) ==
    CASE primary_mode = "cold_chain" -> <<"refrigerated", "standard">>
      [] primary_mode = "refrigerated" -> <<"cold_chain", "standard">>
      [] primary_mode = "standard" -> <<"refrigerated", "cold_chain">>
      [] OTHER -> << >>

\* The two feasibility notes of recommend_delivery_mode, by tag.
NoteExceedsWindow == "Estimated delivery time exceeds window"

NoteWithinSixHours == "Freshness critical - delivery must be within 6 hours"

\* recommend_delivery_mode(freshness_score, freshness_level, distance_km,
\* quantity, availability_window_hours).  freshness_score is in thousandths,
\* distance_km and quantity are whole numbers, the window is None or Num(h),
\* h whole hours; "if availability_window_hours and ..." skips the check for
\* None and for 0, which are both falsy.
\* estimated_hours = distance_km / speed, so estimated_hours > h iff
\* distance_km > h * speed.
recommend_delivery_mode(freshness_score, freshness_level, distance_km, quantity, availability_window_hours) ==
    LET required_mode == RequiredMode(freshness_level)
        urgency == RequiredUrgency(freshness_level)
        speed == SpeedOf(required_mode)
        late == /\ ~IsNone(availability_window_hours)
                /\ availability_window_hours.num # 0
                /\ distance_km > availability_window_hours.num * speed
        critical == freshness_score < 20000 /\ distance_km > 6 * speed
        notes == (IF late THEN <<NoteExceedsWindow>> ELSE << >>)
                 \o (IF critical THEN <<NoteWithinSixHours>> ELSE << >>)
        \* (distance_km * 0.5 + quantity * 0.1) * cost_multiplier, thousandths
        total_cost == ((distance_km * 500 + quantity * 100)
                       * CostMultiplier10(required_mode)) \div 10
    IN  [status |-> "success",
         recommended_delivery_mode |-> required_mode,
         urgency |-> urgency,
         feasible |-> ~late /\ ~critical,
         feasibility_notes |-> notes,
         delivery_details |->
            [distance_km |-> distance_km,
             estimated_delivery_hours |-> RoundDiv(distance_km * 100, speed),
             estimated_cost |-> Round2(total_cost),
             temperature_controlled |-> TempControl(required_mode)],
         alternative_modes |-> _get_alternative_modes(required_mode)]

\* _score_driver raises ZeroDivisionError at capacity / quantity when the
\* shipment's quantity is 0 (capacity >= 0 holds for every capacity).
ScoreDriverRaises(driver, shipment_info) ==
    LET capacity == DictGet(driver, "capacity", 0)
        quantity == DictGet(shipment_info, "quantity", 0)
    IN  capacity >= quantity /\ quantity = 0

\* _score_driver(driver, shipment_info), in thousandths; rating is given in
\* tenths of a star, so (rating / 5.0) * 20 is rating * 400 thousandths.
\* Defined when ScoreDriverRaises is false.
_score_driver(driver, shipment_info) ==
    LET capacity == DictGet(driver, "capacity", 0)
        quantity == DictGet(shipment_info, "quantity", 0)
        rating == DictGet(driver, "rating", 0)
        freshness_level == DictGet(shipment_info, "freshness_level", "FAIR")
        vehicle_type == DictGet(driver, "vehicle_type", "standard")
        capacity_points ==
            IF capacity >= quantity
            THEN Min(30000, (capacity * 10000) \div quantity)
            ELSE 0
        vehicle_points ==
            IF freshness_level \in {"POOR", "CRITICAL"} /\ vehicle_type = "cold_chain"
            THEN 20000
            ELSE IF /\ freshness_level \in {"GOOD", "FAIR"}
                    /\ vehicle_type \in {"cold_chain", "refrigerated"}
            THEN 15000
            ELSE IF vehicle_type = "standard" THEN 10000
            ELSE 0
        availability_points ==
            IF DictGet(driver, "available_hours", 0) >= 12 THEN 10000 ELSE 0
    IN  Min(100000, 50000 + capacity_points + rating * 400 + vehicle_points
                    + availability_points)

_estimate_pickup_time(driver) ==
    LET availability == DictGet(driver, "available_hours", 0)
    IN  IF availability >= 8 THEN "Immediate (0-1 hour)"
        ELSE IF availability >= 4 THEN "Soon (1-3 hours)"
        ELSE "Delayed (3+ hours)"

\* Mutant of InsertByScore: x goes before the entries of equal score, so
\* entries of equal score end up in reverse input order.
RECURSIVE InsertByScoreBeforeTies(_, _)
InsertByScoreBeforeTies(sorted, x) ==
    IF sorted = << >> THEN <<x>>
    ELSE IF Head(sorted).score > x.score
         THEN <<Head(sorted)>> \o InsertByScoreBeforeTies(Tail(sorted), x)
         ELSE <<x>> \o sorted

\* list.sort(key=score, reverse=True): a stable sort, so entries of equal
\* score keep their input order.  InsertByScore puts x after every entry
\* whose score is >= x's.
RECURSIVE InsertByScore(_, _)
InsertByScore(sorted, x) ==
    IF sorted = << >> THEN <<x>>
    ELSE IF Head(sorted).score >= x.score
         THEN <<Head(sorted)>> \o InsertByScore(Tail(sorted), x)
         ELSE <<x>> \o sorted

RECURSIVE SortByScore(_)
SortByScore(entries) ==
    IF entries = << >> THEN << >>
    ELSE InsertByScore(SortByScore(SubSeq(entries, 1, Len(entries) - 1)),
                       entries[Len(entries)])

OptimizeRouteRaises(drivers, shipment_info) ==
    \E i \in 1..Len(drivers) : ScoreDriverRaises(drivers[i], shipment_info)

\* optimize_delivery_route(drivers, shipment_info, delivery_location).
\* delivery_windows holds only wall-clock strings and is left out.
optimize_delivery_route(drivers, shipment_info, delivery_location) ==
    IF drivers = << >>
    THEN [status |-> "no_drivers",
          message |-> "No drivers available for routing",
          optimal_route |-> None]
    ELSE LET scored_drivers ==
                 SortByScore([i \in 1..Len(drivers) |->
                     [driver |-> drivers[i],
                      score |-> _score_driver(drivers[i], shipment_info)]])
             recommendations == SubSeq(scored_drivers, 1, Min(3, Len(scored_drivers)))
         IN  [status |-> "success",
              delivery_location |-> delivery_location,
              recommended_drivers |->
                 [idx \in 1..Len(recommendations) |->
                     [rank |-> idx,
                      driver_id |-> DictGet(recommendations[idx].driver, "_id", None),
                      driver_name |-> DictGet(recommendations[idx].driver, "name", None),
                      vehicle |-> DictGet(recommendations[idx].driver, "vehicle_type", None),
                      rating |-> DictGet(recommendations[idx].driver, "rating", 0),
                      suitability_score |-> Round2(recommendations[idx].score),
                      estimated_pickup_time |->
                          _estimate_pickup_time(recommendations[idx].driver)]]]

RECURSIVE TotalCapacity(_)
TotalCapacity(drivers) ==
    IF drivers = << >> THEN 0
    ELSE DictGet(Head(drivers), "capacity", 0) + TotalCapacity(Tail(drivers))

\* get_available_drivers(db, ...).  db_outcome is what db.drivers.find(query)
\* does: [raises |-> TRUE] for any exception of the database call (caught at
\* line 74), else [raises |-> FALSE, drivers |-> the records found].
get_available_drivers(db_outcome) ==
    IF db_outcome.raises
    THEN [status |-> "error", error |-> "database error", drivers |-> << >>]
    ELSE IF db_outcome.drivers = << >>
    THEN [status |-> "no_drivers", drivers |-> << >>,
          message |-> "No available drivers matching criteria"]
    ELSE [status |-> "success",
          drivers_count |-> Len(db_outcome.drivers),
          drivers |-> db_outcome.drivers,
          total_capacity |-> TotalCapacity(db_outcome.drivers)]

\* ------------------------------------------------------------------------
\* Freshness analysis with the generative advisory
\* (backend/app/agents/freshness_agent.py)
\*
\* A temperature is in whole degrees, a humidity in whole percent, a
\* confidence in hundredths.  A string that may be None is wrapped as
\* Str(s).  analyzed_at is wall-clock time and is left out.  An alert
\* message is given by the values it formats.
\* ------------------------------------------------------------------------

Str(s) == [str |-> s]

\* create_fallback_analysis(sensor_data); the classifications of the model
\* are lower case
create_fallback_analysis(sensor_data) ==
    LET base ==
            IF sensor_data.crop_classification = "rotten"
            THEN [freshness_score |-> 30, health_status |-> "critical",
                  shelf_life_hours |-> 12, alert_generated |-> TRUE,
                  alert_type |-> Str("spoilage_detected"),
                  alert_message |-> [classified_rotten |-> sensor_data.crop_type]]
            ELSE [freshness_score |-> 85, health_status |-> "good",
                  shelf_life_hours |-> 72, alert_generated |-> FALSE,
                  alert_type |-> None, alert_message |-> None]
        after_temperature ==
            IF sensor_data.temperature > 35
            THEN [freshness_score |-> base.freshness_score - 20,
                  health_status |-> "warning",
                  shelf_life_hours |-> Max(24, base.shelf_life_hours \div 2),
                  alert_generated |-> TRUE,
                  alert_type |-> Str("temperature_high"),
                  alert_message |-> [high_temperature |-> sensor_data.temperature]]
            ELSE IF sensor_data.temperature < 5
            THEN [base EXCEPT
                    !.freshness_score = base.freshness_score - 10,
                    !.alert_generated = TRUE,
                    !.alert_type = Str("temperature_low"),
                    !.alert_message = [low_temperature |-> sensor_data.temperature]]
            ELSE base
        after_humidity ==
            IF sensor_data.humidity > 85
            THEN IF ~after_temperature.alert_generated
                 THEN [after_temperature EXCEPT
                         !.freshness_score = after_temperature.freshness_score - 15,
                         !.alert_generated = TRUE,
                         !.alert_type = Str("humidity_high"),
                         !.alert_message = [high_humidity |-> sensor_data.humidity]]
                 ELSE [after_temperature EXCEPT
                         !.freshness_score = after_temperature.freshness_score - 15]
            ELSE after_temperature
    IN  [freshness_score |-> Max(0, Min(100, after_humidity.freshness_score)),
         health_status |-> after_humidity.health_status,
         shelf_life_hours |-> after_humidity.shelf_life_hours,
         alert_generated |-> after_humidity.alert_generated,
         alert_type |-> after_humidity.alert_type,
         alert_message |-> after_humidity.alert_message,
         recommendations |-> <<"Monitor storage conditions regularly",
                               "Consider immediate sale or processing if critical",
                               "Maintain optimal temperature and humidity">>,
         confidence |-> 75]

\* FreshnessAnalysis(**analysis_data) accepts the parsed object: the
\* required fields are present and of their declared type.  A field value
\* is Num(n) for a JSON number, TRUE/FALSE wrapped as [bool |-> b] for a
\* boolean, Str(s) for a string.
FreshnessAnalysisValidates(analysis_data) ==
    /\ \A key \in {"freshness_score", "shelf_life_hours", "confidence"} :
          key \in DOMAIN analysis_data /\ IsNum(analysis_data[key])
    /\ "health_status" \in DOMAIN analysis_data
    /\ "str" \in DOMAIN analysis_data["health_status"]
    /\ "alert_generated" \in DOMAIN analysis_data
    /\ "bool" \in DOMAIN analysis_data["alert_generated"]

\* The FreshnessAnalysis built from a parsed object that validates
\* (alert_type and alert_message default to None, recommendations to [])
FreshnessAnalysisOf(analysis_data) ==
    [freshness_score |-> analysis_data["freshness_score"].num,
     health_status |-> analysis_data["health_status"].str,
     shelf_life_hours |-> analysis_data["shelf_life_hours"].num,
     alert_generated |-> analysis_data["alert_generated"].bool,
     alert_type |-> DictGet(analysis_data, "alert_type", None),
     alert_message |-> DictGet(analysis_data, "alert_message", None),
     recommendations |-> DictGet(analysis_data, "recommendations", << >>),
     confidence |-> analysis_data["confidence"].num]

\* analyze_freshness(sensor_data), lines 114-146, given what
\* client.models.generate_content did:
\*   [kind |-> "raised"]   the call raised;
\*   [kind |-> "no_text"]  response.text is None (strip() raises);
\*   [kind |-> "text", parsed |-> p]  p is what json.loads makes of the text
\*       once lines 127-130 removed the code fences: [error |-> TRUE] for a
\*       JSONDecodeError, [value |-> v] otherwise, v being
\*       [object |-> dict] or [array |-> TRUE] (no item assignment by key).
analyze_freshness(sensor_data, response) ==
    IF response.kind # "text" THEN create_fallback_analysis(sensor_data)
    ELSE IF "error" \in DOMAIN response.parsed
    THEN create_fallback_analysis(sensor_data)
    ELSE IF "object" \notin DOMAIN response.parsed.value
    THEN create_fallback_analysis(sensor_data)
    ELSE IF ~FreshnessAnalysisValidates(response.parsed.value.object)
    THEN create_fallback_analysis(sensor_data)
    ELSE FreshnessAnalysisOf(response.parsed.value.object)

\* Importing freshness_agent (lines 9-20) in an environment: without the
\* google-genai library line 9 raises ImportError; without an API key the
\* constructor of line 20 is given None, which the library either rejects
\* (client_rejects_none) or accepts until the first request.
FreshnessAgentImport(environment) ==
    IF ~environment.library THEN [raises |-> TRUE, error |-> "ImportError"]
    ELSE IF ~environment.api_key /\ environment.client_rejects_none
    THEN [raises |-> TRUE, error |-> "ValueError"]
    ELSE [raises |-> FALSE]

\* ------------------------------------------------------------------------
\* Market analysis (backend/app/agents/market_agent.py, lines 127-503)
\*
\* Money: a price per kg is in paise (hundredths of a rupee); revenue,
\* transport cost and net profit are computed in 1/10000 rupee and reported
\* in paise (round(x, 2)).  A distance is in tenths of a km, a transport rate
\* in tenths of a rupee per km, a quantity in whole kg.
\* ------------------------------------------------------------------------

\* MANDI_DATABASE.get(mandi_name, {"location": "Unknown", "lat": 18.5204,
\* "lon": 73.8567, "transport_rate_per_km": 3.5}), for the mandis of the
\* default item list; "place" names the coordinates (the default coordinates
\* are those of Pune).
MandiInfo(mandi_name) ==
    CASE mandi_name = "Pune APMC" ->
            [location |-> "Pune", place |-> "Pune", transport_rate_per_km |-> 35]
      [] mandi_name = "Nashik Mandi" ->
            [location |-> "Nashik", place |-> "Nashik", transport_rate_per_km |-> 30]
      [] mandi_name = "Mumbai Wholesale" ->
            [location |-> "Mumbai", place |-> "Mumbai", transport_rate_per_km |-> 40]
      [] mandi_name = "Kolhapur Market" ->
            [location |-> "Kolhapur", place |-> "Kolhapur", transport_rate_per_km |-> 32]
      [] mandi_name = "Solapur APMC" ->
            [location |-> "Solapur", place |-> "Solapur", transport_rate_per_km |-> 30]
      [] OTHER ->
            [location |-> "Unknown", place |-> "Pune", transport_rate_per_km |-> 35]

\* get_farmer_coordinates(location): the coordinates of a known village,
\* else those of Pune
get_farmer_coordinates(location) ==
    CASE location = "Pune, Maharashtra" -> "Pune"
      [] location = "Nashik, Maharashtra" -> "Nashik"
      [] OTHER -> "Pune"

\* calculate_distance between the coordinates of two places: the haversine
\* distance of lines 256-269 on the coordinates of lines 127-153, rounded to
\* one decimal, in tenths of a km.
calculate_distance(from, to) ==
    CASE from = to -> 0
      [] from = "Pune" /\ to = "Nashik" -> 1644
      [] from = "Pune" /\ to = "Mumbai" -> 1202
      [] from = "Pune" /\ to = "Kolhapur" -> 2060
      [] from = "Pune" /\ to = "Solapur" -> 2368
      [] from = "Nashik" /\ to = "Pune" -> 1644
      [] from = "Nashik" /\ to = "Mumbai" -> 1401
      [] from = "Nashik" /\ to = "Kolhapur" -> 3692
      [] from = "Nashik" /\ to = "Solapur" -> 3423

\* get_crop_default_price(crop_name), price in rupees per kg
get_crop_default_price(crop_name) ==
    CASE crop_name \in {"tomato", "Tomatoes"} ->
            [price |-> 80, trend |-> "up", spoilage |-> "Critical"]
      [] crop_name \in {"onion", "Onions"} ->
            [price |-> 40, trend |-> "stable", spoilage |-> "Low"]
      [] crop_name = "Ginger" -> [price |-> 120, trend |-> "up", spoilage |-> "Low"]
      [] OTHER -> [price |-> 50, trend |-> "stable", spoilage |-> "Medium"]

\* crop_lower in m.get("cropName", "").lower(), for the crop names of the
\* model's items
CropNameContains(crop_name, crop_lower) ==
    \/ crop_name = "Tomato" /\ crop_lower = "tomato"
    \/ crop_name = "Onion" /\ crop_lower = "onion"

\* Lines 338-349: the five default items.  factors[i] is the value of the
\* i-th random.uniform call in thousandths; the price is
\* round(default_price * factor) rupees.
DefaultMarketItems(crop_type, default_price_info, factors) ==
    LET price(i) == RoundDiv(default_price_info.price * factors[i], 1000) * 100
    IN  <<[id |-> "M001", cropName |-> crop_type, mandiName |-> "Pune APMC",
           price |-> price(1), trend |-> default_price_info.trend,
           spoilageRisk |-> default_price_info.spoilage],
          [id |-> "M002", cropName |-> crop_type, mandiName |-> "Mumbai Wholesale",
           price |-> price(2), trend |-> "up",
           spoilageRisk |-> default_price_info.spoilage],
          [id |-> "M003", cropName |-> crop_type, mandiName |-> "Nashik Mandi",
           price |-> price(3), trend |-> default_price_info.trend,
           spoilageRisk |-> default_price_info.spoilage],
          [id |-> "M004", cropName |-> crop_type, mandiName |-> "Kolhapur Market",
           price |-> price(4), trend |-> default_price_info.trend,
           spoilageRisk |-> default_price_info.spoilage],
          [id |-> "M005", cropName |-> crop_type, mandiName |-> "Solapur APMC",
           price |-> price(5), trend |-> "stable",
           spoilageRisk |-> default_price_info.spoilage]>>

\* Lines 354-385: the MandiOption of one market item
MandiOptionOf(item, farmer_place, quantity_kg, default_price) ==
    LET mandi_name == DictGet(item, "mandiName", "Unknown Mandi")
        mandi_info == MandiInfo(mandi_name)
        distance == calculate_distance(farmer_place, mandi_info.place)
        price_per_kg == DictGet(item, "price", default_price * 100)
        revenue == price_per_kg * quantity_kg * 100
        transport_cost == distance * mandi_info.transport_rate_per_km * quantity_kg
        net_profit == revenue - transport_cost
    IN  [mandi_id |-> DictGet(item, "id", "M000"),
         mandi_name |-> mandi_name,
         location |-> mandi_info.location,
         current_price |-> price_per_kg,
         trend |-> DictGet(item, "trend", "stable"),
         spoilage_risk |-> DictGet(item, "spoilageRisk", "Medium"),
         distance_km |-> distance,
         estimated_revenue |-> RoundDiv(revenue, 100),
         transport_cost |-> RoundDiv(transport_cost, 100),
         net_profit |-> RoundDiv(net_profit, 100),
         \* round(net_profit / revenue * 100, 1), in tenths of a percent; the
         \* quotient is taken per kg (net_profit and revenue are both
         \* multiples of quantity_kg) to stay within 32-bit integers
         profit_margin_percent |->
            IF revenue > 0
            THEN RoundDiv((price_per_kg * 100
                           - distance * mandi_info.transport_rate_per_km) * 1000,
                          price_per_kg * 100)
            ELSE 0,
         recommended |-> FALSE,
         recommendation_reason |-> ""]

\* mandi_options.sort(key=lambda x: x.net_profit, reverse=True): a stable
\* sort on the reported net profit, so options of equal net profit keep
\* their input order.
RECURSIVE InsertByNetProfit(_, _)
InsertByNetProfit(sorted, x) ==
    IF sorted = << >> THEN <<x>>
    ELSE IF Head(sorted).net_profit >= x.net_profit
         THEN <<Head(sorted)>> \o InsertByNetProfit(Tail(sorted), x)
         ELSE <<x>> \o sorted

RECURSIVE SortByNetProfit(_)
SortByNetProfit(options) ==
    IF options = << >> THEN << >>
    ELSE InsertByNetProfit(SortByNetProfit(SubSeq(options, 1, Len(options) - 1)),
                           options[Len(options)])

\* The text of line 394, by the values it formats ({:.0f} in rupees)
RecommendationReason(best) ==
    [highest_net_profit |-> RoundDiv(best.net_profit, 100),
     margin |-> best.profit_margin_percent]

\* Mutant of MarkBest: every option whose net profit equals the best one's
\* is marked.
MarkBestAllTop(sorted_options) ==
    [i \in 1..Len(sorted_options) |->
        IF sorted_options[i].net_profit = sorted_options[1].net_profit
        THEN [sorted_options[i] EXCEPT
                 !.recommended = TRUE,
                 !.recommendation_reason = RecommendationReason(sorted_options[i])]
        ELSE sorted_options[i]]

\* Lines 391-394: best = mandi_options[0] is marked recommended
MarkBest(sorted_options) ==
    [i \in 1..Len(sorted_options) |->
        IF i = 1
        THEN [sorted_options[i] EXCEPT
                 !.recommended = TRUE,
                 !.recommendation_reason = RecommendationReason(sorted_options[i])]
        ELSE sorted_options[i]]

\* Mutant of ProfitGap: the gap is taken to the second option.
ProfitGapToSecond(mandi_options) ==
    IF mandi_options = << >> THEN [text |-> "No market data available"]
    ELSE IF Len(mandi_options) > 1
    THEN [difference |->
             RoundDiv(mandi_options[1].net_profit - mandi_options[2].net_profit, 100)]
    ELSE [text |-> "Single option available"]

\* Lines 396-403: profit_gap, the difference formatted with {:.0f} (rupees)
ProfitGap(mandi_options) ==
    IF mandi_options = << >> THEN [text |-> "No market data available"]
    ELSE IF Len(mandi_options) > 1
    THEN [difference |->
             RoundDiv(mandi_options[1].net_profit
                      - mandi_options[Len(mandi_options)].net_profit, 100)]
    ELSE [text |-> "Single option available"]

\* generate_rule_based_insight(crop_type, quantity_kg, options)
generate_rule_based_insight(options) ==
    IF options = << >> THEN [text |-> "No market data available"]
    ELSE [best_option |-> options[1].mandi_name,
          price |-> options[1].current_price,
          earn |-> RoundDiv(options[1].net_profit, 100),
          trend_advice |->
             IF options[1].trend = "up" THEN "Prices are rising - good time to sell!"
             ELSE IF options[1].trend = "down"
             THEN "Prices are falling - consider selling soon before further drop."
             ELSE "Prices are stable."]

\* get_ai_market_insight(crop_type, quantity_kg, options), given what the
\* advisory call did: it is not made (library or API key missing), it
\* raises, or it returns a text.
get_ai_market_insight(options, advisory) ==
    IF advisory.kind = "text" THEN [text |-> advisory.text]
    ELSE generate_rule_based_insight(options)

\* Lines 408-418
SellUrgency(mandi_options) ==
    IF \E i \in 1..Len(mandi_options) : mandi_options[i].spoilage_risk = "Critical"
    THEN "immediate"
    ELSE IF \E i \in 1..Len(mandi_options) : mandi_options[i].spoilage_risk = "Medium"
    THEN "within_24h"
    ELSE "flexible"

\* Lines 420-426; the options are not empty
PriceRange(mandi_options) ==
    LET prices == {mandi_options[i].current_price : i \in 1..Len(mandi_options)}
    IN  [min_price |-> CHOOSE x \in prices : \A y \in prices : x <= y,
         max_price |-> CHOOSE x \in prices : \A y \in prices : x >= y]

\* Lines 322-349: the market items analysed.  found is the answer of the
\* first find (by crop name), all_items that of the second (every item).
MarketItemsFor(crop_type, found, all_items, factors) ==
    LET filtered == SelectSeq(all_items,
                       LAMBDA m : CropNameContains(DictGet(m, "cropName", ""), crop_type))
    IN  IF found # << >> THEN found
        ELSE IF filtered # << >> THEN filtered
        ELSE DefaultMarketItems(crop_type, get_crop_default_price(crop_type), factors)

\* analyze_market_for_crop(db, farmer_id, crop_type, quantity_kg,
\* farmer_village).  farmer is the answer of db.farmers.find_one (None or a
\* record); generated_at is wall-clock time and is left out.
analyze_market_for_crop(farmer_found, crop_type, quantity_kg, farmer_village, found, all_items, factors, advisory) ==
    LET farmer == IF IsNone(farmer_found)
                  THEN [name |-> "Unknown Farmer", village |-> farmer_village]
                  ELSE farmer_found
        farmer_place == get_farmer_coordinates(DictGet(farmer, "village", farmer_village))
        default_price == get_crop_default_price(crop_type).price
        market_items == MarketItemsFor(crop_type, found, all_items, factors)
        mandi_options ==
            MarkBest(SortByNetProfit(
                [i \in 1..Len(market_items) |->
                    MandiOptionOf(market_items[i], farmer_place, quantity_kg,
                                  default_price)]))
    IN  [farmer_name |-> DictGet(farmer, "name", "Unknown"),
         farmer_location |-> DictGet(farmer, "village", "Unknown"),
         crop_type |-> crop_type,
         quantity_kg |-> quantity_kg,
         mandi_options |-> mandi_options,
         best_mandi |-> IF mandi_options # << >> THEN mandi_options[1].mandi_name ELSE "None",
         best_price |-> IF mandi_options # << >> THEN mandi_options[1].current_price ELSE 0,
         best_profit |-> IF mandi_options # << >> THEN mandi_options[1].net_profit ELSE 0,
         price_range |-> IF mandi_options # << >> THEN PriceRange(mandi_options)
                         ELSE [text |-> "No price data"],
         profit_gap |-> ProfitGap(mandi_options),
         market_insight |-> get_ai_market_insight(mandi_options, advisory),
         sell_urgency |-> SellUrgency(mandi_options)]

\* ------------------------------------------------------------------------
\* WorkflowOrchestrator: synthesis
\* (backend/app/agents/workflow_orchestrator.py, lines 265-444)
\* ------------------------------------------------------------------------

\* The 5-tier step function of lines 305-314, on a score in thousandths.
FinalLevel(final_freshness_score) ==
    IF final_freshness_score >= 80000 THEN "EXCELLENT"
    ELSE IF final_freshness_score >= 60000 THEN "GOOD"
    ELSE IF final_freshness_score >= 40000 THEN "FAIR"
    ELSE IF final_freshness_score >= 20000 THEN "POOR"
    ELSE "CRITICAL"

\* Mutant of ModePreservationBonus: refrigerated earns the cold-chain bonus.
ModePreservationBonusFlat(delivery_mode) ==
    CASE delivery_mode = "cold_chain" -> 5000
      [] delivery_mode = "refrigerated" -> 5000
      [] delivery_mode = "standard" -> 0
      [] OTHER -> 0

\* {"cold_chain": 5, "refrigerated": 3, "standard": 0}.get(delivery_mode, 0),
\* in thousandths
ModePreservationBonus(delivery_mode) ==
    CASE delivery_mode = "cold_chain" -> 5000
      [] delivery_mode = "refrigerated" -> 3000
      [] delivery_mode = "standard" -> 0
      [] OTHER -> 0

\* weather_degradation_rate * transport_hours, in thousandths: the rate is in
\* thousandths per hour and the duration in hundredths of an hour.
WeatherImpactLoss(weather_degradation_rate, transport_hours) ==
    (weather_degradation_rate * transport_hours) \div 100

\* Mutant of FinalFreshnessScore: the clamp to [0, 100] is missing.
FinalFreshnessScoreUnclamped(base_freshness, weather_impact_loss, mode_preservation_bonus) ==
    base_freshness - weather_impact_loss + mode_preservation_bonus

\* max(0, min(100, base_freshness - weather_impact_loss + bonus))
FinalFreshnessScore(base_freshness, weather_impact_loss, mode_preservation_bonus) ==
    Max(0, Min(100000, base_freshness - weather_impact_loss + mode_preservation_bonus))

\* str.upper() on the delivery modes
Upper(mode) ==
    CASE mode = "cold_chain" -> "COLD_CHAIN"
      [] mode = "refrigerated" -> "REFRIGERATED"
      [] mode = "standard" -> "STANDARD"
      [] OTHER -> mode

WrapNotes(notes) == [i \in 1..Len(notes) |-> [kind |-> "note", text |-> notes[i]]]

\* Mutant of _generate_comprehensive_recommendations: the Weather stage's
\* recommendations are placed before the delivery-mode line.
RecommendationsWeatherFirst(base_freshness, final_freshness, final_level, market_data, logistics_data, weather_data) ==
    (IF final_freshness < base_freshness
     THEN <<[kind |-> "freshness_loss",
             loss |-> RoundDiv(base_freshness - final_freshness, 100)]>>
     ELSE << >>)
    \o <<[kind |-> "status", level |-> final_level,
          score |-> RoundDiv(final_freshness, 1000)]>>
    \o (IF "recommended_price" \in DOMAIN market_data
           /\ market_data["recommended_price"] # 0
        THEN <<[kind |-> "price", price |-> market_data["recommended_price"],
                strategy |-> DictGet(market_data, "pricing_strategy", "MARKET_RATE")]>>
        ELSE << >>)
    \o (IF "recommendations" \in DOMAIN weather_data
        THEN WrapNotes(weather_data["recommendations"])
        ELSE << >>)
    \o (IF "recommended_delivery_mode" \in DOMAIN logistics_data
        THEN <<[kind |-> "delivery",
                mode |-> Upper(logistics_data["recommended_delivery_mode"])]>>
        ELSE << >>)
    \o (IF ~DictGet(logistics_data, "feasible", TRUE)
        THEN WrapNotes(DictGet(logistics_data, "feasibility_notes", << >>))
        ELSE << >>)
    \o (IF final_level \in {"POOR", "CRITICAL"}
        THEN <<[kind |-> "urgent"]>>
        ELSE IF final_level = "FAIR" THEN <<[kind |-> "high_priority"]>>
        ELSE << >>)

\* _generate_comprehensive_recommendations.  A line is a record: its kind
\* and the values its f-string formats ({:.1f} in tenths, {:.0f} in units,
\* {:.2f} in hundredths); a line taken over verbatim keeps its text.
_generate_comprehensive_recommendations(base_freshness, final_freshness, final_level, market_data, logistics_data, weather_data) ==
    (IF final_freshness < base_freshness
     THEN <<[kind |-> "freshness_loss",
             loss |-> RoundDiv(base_freshness - final_freshness, 100)]>>
     ELSE << >>)
    \o <<[kind |-> "status", level |-> final_level,
          score |-> RoundDiv(final_freshness, 1000)]>>
    \o (IF "recommended_price" \in DOMAIN market_data
           /\ market_data["recommended_price"] # 0
        THEN <<[kind |-> "price", price |-> market_data["recommended_price"],
                strategy |-> DictGet(market_data, "pricing_strategy", "MARKET_RATE")]>>
        ELSE << >>)
    \o (IF "recommended_delivery_mode" \in DOMAIN logistics_data
        THEN <<[kind |-> "delivery",
                mode |-> Upper(logistics_data["recommended_delivery_mode"])]>>
        ELSE << >>)
    \o (IF ~DictGet(logistics_data, "feasible", TRUE)
        THEN WrapNotes(DictGet(logistics_data, "feasibility_notes", << >>))
        ELSE << >>)
    \o (IF "recommendations" \in DOMAIN weather_data
        THEN WrapNotes(weather_data["recommendations"])
        ELSE << >>)
    \o (IF final_level \in {"POOR", "CRITICAL"}
        THEN <<[kind |-> "urgent"]>>
        ELSE IF final_level = "FAIR" THEN <<[kind |-> "high_priority"]>>
        ELSE << >>)

\* _generate_action_items(final_level, market_data, logistics_data)
_generate_action_items(final_level, market_data, logistics_data) ==
    <<[priority |-> IF final_level \in {"CRITICAL", "POOR"} THEN "CRITICAL"
                    ELSE IF final_level = "FAIR" THEN "HIGH"
                    ELSE "NORMAL",
       action |-> "Confirm delivery arrangements",
       details |-> DictGet(logistics_data, "recommended_delivery_mode", "standard")]>>
    \o (IF "recommended_price" \in DOMAIN market_data
           /\ market_data["recommended_price"] # 0
        THEN <<[priority |-> "IMPORTANT",
                action |-> "Set market price",
                details |-> <<market_data["recommended_price"],
                              DictGet(market_data, "pricing_strategy", "market analysis")>>]>>
        ELSE << >>)
    \o (IF DictGet(logistics_data, "feasibility_notes", << >>) # << >>
        THEN <<[priority |-> "WARNING",
                action |-> "Address logistics constraints",
                details |-> SubSeq(logistics_data["feasibility_notes"], 1,
                                   Min(2, Len(logistics_data["feasibility_notes"])))]>>
        ELSE << >>)

\* Lines 278-281: the payload of a stage result, {} unless the stage succeeded.
StageData(stage_result, key) ==
    IF stage_result["status"] = "success"
    THEN DictGet(stage_result, key, EmptyDict)
    ELSE EmptyDict

\* _synthesize_results raises (and execute_workflow's handler at line 113
\* catches it) when a value it computes with is None where a number or a dict
\* is needed:
\*   line 289: None * transport_hours                      (TypeError)
\*   line 377: market_data.get on a None price_recommendation (AttributeError)
\*   line 343: market_result.get("market_data", {}).get on None (AttributeError)
SynthesisRaises(freshness_result, market_result, logistics_result, weather_result) ==
    LET market_data == StageData(market_result, "price_recommendation")
        weather_data == StageData(weather_result, "data")
    IN  \/ IsNone(DictGet(weather_data, "freshness_degradation_rate", Num(1000)))
        \/ IsNone(market_data)
        \/ IsNone(DictGet(market_result, "market_data", EmptyDict))

\* The unrounded final_freshness_score of lines 284-302, in thousandths.
SynthesisFinalScore(freshness_result, logistics_result, weather_result) ==
    LET freshness_data == StageData(freshness_result, "data")
        logistics_data == StageData(logistics_result, "delivery_recommendation")
        weather_data == StageData(weather_result, "data")
        base_freshness == DictGet(freshness_data, "freshness_score", 50000)
        weather_degradation_rate ==
            DictGet(weather_data, "freshness_degradation_rate", Num(1000)).num
        transport_hours == DictGet(weather_data, "transportation_duration_hours", 200)
        delivery_mode == DictGet(logistics_data, "recommended_delivery_mode", "standard")
    IN  FinalFreshnessScore(base_freshness,
                            WeatherImpactLoss(weather_degradation_rate, transport_hours),
                            ModePreservationBonus(delivery_mode))

\* _synthesize_results(freshness_result, market_result, logistics_result,
\* weather_result, crop_data); crop_data is not read.  Scores and losses are
\* reported rounded to hundredths (round(x, 2)).
_synthesize_results(freshness_result, market_result, logistics_result, weather_result) ==
    LET freshness_data == StageData(freshness_result, "data")
        market_data == StageData(market_result, "price_recommendation")
        logistics_data == StageData(logistics_result, "delivery_recommendation")
        weather_data == StageData(weather_result, "data")
        base_freshness == DictGet(freshness_data, "freshness_score", 50000)
        weather_degradation_rate ==
            DictGet(weather_data, "freshness_degradation_rate", Num(1000)).num
        transport_hours == DictGet(weather_data, "transportation_duration_hours", 200)
        weather_impact_loss == WeatherImpactLoss(weather_degradation_rate, transport_hours)
        delivery_mode == DictGet(logistics_data, "recommended_delivery_mode", "standard")
        mode_preservation_bonus == ModePreservationBonus(delivery_mode)
        final_freshness_score ==
            SynthesisFinalScore(freshness_result, logistics_result, weather_result)
        final_freshness_level == FinalLevel(final_freshness_score)
    IN  [final_freshness_score |-> Round2(final_freshness_score),
         final_freshness_level |-> final_freshness_level,
         base_freshness_score |-> Round2(base_freshness),
         weather_impact |->
            [degradation_rate |-> Round2(weather_degradation_rate),
             estimated_loss |-> Round2(weather_impact_loss),
             risk_level |-> DictGet(weather_data, "risk_level", "UNKNOWN")],
         logistics_impact |->
            [delivery_mode |-> delivery_mode,
             preservation_bonus |-> mode_preservation_bonus,
             feasible |-> DictGet(logistics_data, "feasible", FALSE)],
         market_recommendation |->
            [recommended_price |-> DictGet(market_data, "recommended_price", 0),
             pricing_strategy |-> DictGet(market_data, "pricing_strategy", "MARKET_RATE"),
             market_trend |-> DictGet(DictGet(market_result, "market_data", EmptyDict),
                                      "market_trend", "stable")],
         comprehensive_recommendations |->
            _generate_comprehensive_recommendations(
                base_freshness, final_freshness_score, final_freshness_level,
                market_data, logistics_data, weather_data),
         action_items |->
            _generate_action_items(final_freshness_level, market_data, logistics_data)]

\* ------------------------------------------------------------------------
\* WorkflowOrchestrator: the stage wrappers
\* (backend/app/agents/workflow_orchestrator.py, lines 122-263)
\*
\* The agent calls are calls into collaborators; what a call did is its
\* outcome: [raises |-> TRUE, error |-> message] when it raised, else
\* [raises |-> FALSE, value |-> what it returned].
\* ------------------------------------------------------------------------

Raised(message) == [raises |-> TRUE, error |-> message]

Returned(value) == [raises |-> FALSE, value |-> value]

StageError(message) == [status |-> "error", error |-> message]

\* _execute_freshness_stage(crop_data), given the outcome of
\* freshness_agent.predict_freshness
_execute_freshness_stage(crop_data, predict_outcome) ==
    IF predict_outcome.raises
    THEN StageError(predict_outcome.error)
    ELSE [status |-> "success", data |-> predict_outcome.value]

\* _execute_market_stage(db, crop_data, freshness_result, market_params),
\* given the outcomes of market_agent.fetch_market_data and
\* market_agent.determine_best_price (the latter is called only when the
\* freshness stage succeeded)
_execute_market_stage(crop_data, freshness_result, market_params, fetch_outcome, price_outcome) ==
    IF fetch_outcome.raises
    THEN StageError(fetch_outcome.error)
    ELSE IF freshness_result["status"] = "success"
    THEN IF price_outcome.raises
         THEN StageError(price_outcome.error)
         ELSE [status |-> "success",
               market_data |-> fetch_outcome.value,
               price_recommendation |-> price_outcome.value]
    ELSE [status |-> "success",
          market_data |-> fetch_outcome.value,
          price_recommendation |-> [status |-> "no_freshness_data"]]

\* logistics_params.get(key, default) if logistics_params else default
ParamGet(params, key, default) ==
    IF IsNone(params) \/ DOMAIN params = {} THEN default
    ELSE DictGet(params, key, default)

\* _execute_logistics_stage(db, crop_data, freshness_result, logistics_params),
\* given the outcome of db.drivers.find
_execute_logistics_stage(crop_data, freshness_result, logistics_params, db_outcome) ==
    LET freshness_info == DictGet(freshness_result, "data", EmptyDict)
        delivery_recommendation ==
            recommend_delivery_mode(
                DictGet(freshness_info, "freshness_score", 50000),
                DictGet(freshness_info, "freshness_level", "FAIR"),
                ParamGet(logistics_params, "distance_km", 100),
                DictGet(crop_data, "quantity", 0),
                Num(24))
        drivers == get_available_drivers(db_outcome)
        shipment_info ==
            [freshness |-> DictGet(freshness_info, "freshness_level", None),
             freshness_score |-> DictGet(freshness_info, "freshness_score", None),
             quantity |-> DictGet(crop_data, "quantity", 0)]
    IN  IF drivers.status = "success"
           /\ OptimizeRouteRaises(drivers.drivers, shipment_info)
        THEN StageError("division by zero")
        ELSE [status |-> "success",
              delivery_recommendation |-> delivery_recommendation,
              available_drivers |-> drivers,
              route_optimization |->
                 IF drivers.status = "success"
                 THEN optimize_delivery_route(
                          drivers.drivers, shipment_info,
                          ParamGet(logistics_params, "destination", "market"))
                 ELSE None]

\* transport_duration = distance / 50 of line 246, in hundredths of an hour
TransportDuration(logistics_params) ==
    ParamGet(logistics_params, "distance_km", 100) * 2

\* _execute_weather_stage(db, crop_data, logistics_params), given the outcome
\* of weather_agent.assess_weather_impact
_execute_weather_stage(crop_data, logistics_params, weather_outcome) ==
    IF weather_outcome.raises
    THEN StageError(weather_outcome.error)
    ELSE [status |-> "success", data |-> weather_outcome.value]

\* ------------------------------------------------------------------------
\* Inputs and collaborator outcomes explored
\* ------------------------------------------------------------------------

\* crop_data: quantity absent (crop_data.get("quantity", 0) is then 0), or set
CropDataInputs ==
    {[crop_name |-> "tomato", temperature |-> 18, humidity |-> 90, age_hours |-> 0],
     [crop_name |-> "tomato", temperature |-> 18, humidity |-> 90, age_hours |-> 0,
      quantity |-> 150]}

\* logistics_params: None, or a dict
LogisticsParamsInputs ==
    {None,
     [distance_km |-> 50],
     [location |-> "Nashik", destination |-> "Mumbai", distance_km |-> 500],
     [location |-> "Nashik", destination |-> "Delhi", distance_km |-> 2000]}

\* market_params: None, or a dict
MarketParamsInputs == {None, [target_location |-> "Mumbai Mandi", urgency |-> "MEDIUM"]}

\* The tier of a freshness score (thousandths) as the freshness agent
\* reports it: >=80 EXCELLENT, >=60 GOOD, >=40 FAIR, >=20 POOR, else CRITICAL.
FreshnessLevelOf(score) ==
    IF score >= 80000 THEN "EXCELLENT"
    ELSE IF score >= 60000 THEN "GOOD"
    ELSE IF score >= 40000 THEN "FAIR"
    ELSE IF score >= 20000 THEN "POOR"
    ELSE "CRITICAL"

\* The crop profile of the freshness scorer: the optimal temperature and
\* humidity ranges and the shelf life.  "tomatoes" is a known category, any
\* other name gets the default profile.
CropProfile(crop_name) ==
    IF crop_name = "tomatoes"
    THEN [Tmin |-> 10, Tmax |-> 21, Hmin |-> 85, Hmax |-> 95, shelf_life_days |-> 3]
    ELSE [Tmin |-> 15, Tmax |-> 25, Hmin |-> 60, Hmax |-> 80, shelf_life_days |-> 7]

\* Mutant of env_score: the score is not floored at 0.
env_scoreUnfloored(v, lo, hi) ==
    IF lo <= v /\ v <= hi THEN 100
    ELSE 100 - 5 * (IF v < lo THEN lo - v ELSE v - hi)

\* env_score(v, lo, hi): 100 within the range, else 100 - 5 x the distance
\* from the range, floored at 0
env_score(v, lo, hi) ==
    IF lo <= v /\ v <= hi THEN 100
    ELSE Max(0, 100 - 5 * (IF v < lo THEN lo - v ELSE v - hi))

\* freshness_agent.predict_freshness(crop_name, temperature, humidity,
\* age_hours): temperature in whole degrees, humidity in whole percent,
\* age_hours None or Num(hours).  The scorer clamps the observation to
\* [-10, 60] and [0, 100].  age_score is kept as age_score x shelf life in
\* hours, so that 0.30 x temp + 0.40 x humidity + 0.30 x age is exact; the
\* score is in thousandths.
predict_freshness(crop_name, temperature, humidity, age_hours) ==
    LET profile == CropProfile(crop_name)
        temp_score == env_score(Max(-10, Min(60, temperature)),
                                profile.Tmin, profile.Tmax)
        humidity_score == env_score(Max(0, Min(100, humidity)),
                                    profile.Hmin, profile.Hmax)
        shelf_hours == profile.shelf_life_days * 24
        age_score_by_shelf ==
            IF IsNone(age_hours) THEN 100 * shelf_hours
            ELSE Max(0, 100 * shelf_hours - 100 * age_hours.num)
        score == (((3 * temp_score + 4 * humidity_score) * shelf_hours
                   + 3 * age_score_by_shelf) * 100) \div shelf_hours
    IN  [freshness_score |-> score,
         freshness_level |-> FreshnessLevelOf(score),
         component_scores |->
            [temperature |-> temp_score, humidity |-> humidity_score,
             age |-> age_score_by_shelf \div shelf_hours]]

\* Freshness scores the agent reports, in thousandths
FreshnessScores == {1500, 45000, 81996, 98000}

\* freshness_agent.predict_freshness: raises, returns a full result, a result
\* without a level, or a dict with neither score nor level
PredictFreshnessOutcomes ==
    {Raised("freshness model unavailable")}
    \cup {Returned([freshness_score |-> sc, freshness_level |-> FreshnessLevelOf(sc)]) :
             sc \in FreshnessScores}
    \cup {Returned([freshness_score |-> 98000]),
          Returned([status |-> "unknown_crop"])}

\* market_agent.fetch_market_data: raises, returns None, or returns a dict
FetchMarketDataOutcomes ==
    {Raised("market lookup failed"),
     Returned(None),
     Returned([status |-> "success", average_price |-> 2400, market_trend |-> "up"]),
     Returned([status |-> "no_data"])}

\* market_agent.determine_best_price: raises, returns None, or returns a dict
\* with or without a recommended price (prices in hundredths)
DetermineBestPriceOutcomes ==
    {Raised("pricing failed"),
     Returned(None),
     Returned([status |-> "success", recommended_price |-> 2880,
               pricing_strategy |-> "PREMIUM"]),
     Returned([status |-> "insufficient_data", price_multiplier |-> 10])}

\* Driver records of the drivers collection (rating in tenths of a star)
DriverA ==
    [_id |-> "d1", name |-> "Asha", vehicle_type |-> "cold_chain",
     capacity |-> 150, rating |-> 45, available_hours |-> 8]

DriverB ==
    [_id |-> "d2", name |-> "Ravi", vehicle_type |-> "standard",
     capacity |-> 300, rating |-> 40, available_hours |-> 6]

\* db.drivers.find(query).to_list(50): raises, finds nothing, or finds drivers
FindDriversOutcomes ==
    {[raises |-> TRUE, drivers |-> << >>],
     [raises |-> FALSE, drivers |-> << >>],
     [raises |-> FALSE, drivers |-> <<DriverB, DriverA>>]}

\* weather_agent.assess_weather_impact(..., transportation_duration_hours):
\* raises, or returns a dict; a reported duration is the one it was given.
AssessWeatherOutcomes(transport_duration) ==
    {Raised("forecast unavailable"),
     Returned([freshness_degradation_rate |-> Num(500),
               transportation_duration_hours |-> transport_duration,
               risk_level |-> "LOW",
               recommendations |-> <<"Weather conditions favourable">>]),
     Returned([freshness_degradation_rate |-> Num(4000),
               transportation_duration_hours |-> transport_duration,
               risk_level |-> "CRITICAL",
               recommendations |-> <<"Delay transport", "Use covered vehicle">>]),
     Returned([freshness_degradation_rate |-> Num(500), risk_level |-> "LOW"]),
     Returned([transportation_duration_hours |-> transport_duration]),
     Returned([freshness_degradation_rate |-> None,
               transportation_duration_hours |-> transport_duration]),
     Returned(EmptyDict)}

\* ------------------------------------------------------------------------
\* Driver assignment (backend/app/agents/market_agent.py, lines 510-684)
\*
\* db is a record of collections; a collection is the sequence of its
\* documents in insertion order.  Quantities are whole kg, money is in paise.
\* A booking id (made from the wall-clock second) is the number of the
\* booking; the timestamps of the documents are left out.
\* ------------------------------------------------------------------------

\* Number of documents db.drivers.find(...).to_list(length=...) returns at
\* most in the model (the code asks for 10, line 568).
DriverFetchLimit == 2

\* VEHICLE_CAPACITIES.get(vehicle_type, 1000), lines 155-163
VehicleCapacity(vehicle_type) ==
    CASE vehicle_type = "Tata Ace" -> 750
      [] vehicle_type = "Mahindra Pickup" -> 1000
      [] vehicle_type = "Tata 407" -> 2500
      [] vehicle_type = "Ashok Leyland Dost" -> 1500
      [] vehicle_type = "Eicher Pro 1049" -> 4000
      [] vehicle_type = "Mahindra Bolero Pickup" -> 1200
      [] vehicle_type = "Tata 709" -> 5000
      [] OTHER -> 1000

DriverCapacity(driver) == VehicleCapacity(DictGet(driver, "vehicleType", "Tata Ace"))

\* collection.find_one({key: value}): the first matching document, or None
FindOne(collection, key, value) ==
    LET matching == SelectSeq(collection,
                       LAMBDA doc : key \in DOMAIN doc /\ doc[key] = value)
    IN  IF matching = << >> THEN None ELSE matching[1]

\* collection.update_one({key: value}, ...): the fields given are written
\* to the first matching document
UpdateOne(collection, key, value, fields) ==
    LET hits == {i \in 1..Len(collection) :
                    key \in DOMAIN collection[i] /\ collection[i][key] = value}
    IN  IF hits = {} THEN collection
        ELSE LET first == CHOOSE i \in hits : \A j \in hits : i <= j
             IN  [collection EXCEPT ![first] = fields @@ collection[first]]

\* Mutant of AvailableDrivers: the status is not looked at.
AvailableDriversAnyStatus(drivers) ==
    SubSeq(drivers, 1, Min(Len(drivers), DriverFetchLimit))

\* db["drivers"].find({"status": "Available"}).to_list(length=10)
AvailableDrivers(drivers) ==
    LET available == SelectSeq(drivers,
                        LAMBDA driver : DictGet(driver, "status", "") = "Available")
    IN  SubSeq(available, 1, Min(Len(available), DriverFetchLimit))

\* Mutant of SelectDriver: without a suitable vehicle the first available
\* driver is taken.
SelectDriverFirstAvailable(available_drivers, quantity_kg) ==
    LET suitable == {i \in 1..Len(available_drivers) :
                        DriverCapacity(available_drivers[i]) >= quantity_kg}
    IN  IF suitable = {} THEN available_drivers[1]
        ELSE available_drivers[CHOOSE i \in suitable :
                \A j \in suitable :
                   \/ DriverCapacity(available_drivers[i])
                         < DriverCapacity(available_drivers[j])
                   \/ /\ DriverCapacity(available_drivers[i])
                            = DriverCapacity(available_drivers[j])
                      /\ i <= j]

\* Lines 575-592: the suitable drivers (capacity >= quantity_kg) sorted by
\* capacity, the sort being stable, and the first of them; without a
\* suitable driver max(available_drivers, key=capacity), the first of the
\* largest.  available_drivers is not empty.
SelectDriver(available_drivers, quantity_kg) ==
    LET all == 1..Len(available_drivers)
        suitable == {i \in all : DriverCapacity(available_drivers[i]) >= quantity_kg}
    IN  IF suitable = {}
        THEN available_drivers[CHOOSE i \in all :
                \A j \in all :
                   \/ DriverCapacity(available_drivers[i])
                         > DriverCapacity(available_drivers[j])
                   \/ /\ DriverCapacity(available_drivers[i])
                            = DriverCapacity(available_drivers[j])
                      /\ i <= j]
        ELSE available_drivers[CHOOSE i \in suitable :
                \A j \in suitable :
                   \/ DriverCapacity(available_drivers[i])
                         < DriverCapacity(available_drivers[j])
                   \/ /\ DriverCapacity(available_drivers[i])
                            = DriverCapacity(available_drivers[j])
                      /\ i <= j]

\* Lines 542-565: the farmer is fetched by id; a missing farmer is created,
\* a farmer named "Unknown", "Farmer" or None is renamed.  Gives the farmers
\* collection afterwards.
FarmersAfterLookup(farmers, farmer_id, farmer_phone, farmer_name) ==
    LET farmer == FindOne(farmers, "id", farmer_id)
    IN  IF IsNone(farmer)
        THEN Append(farmers,
                    [id |-> farmer_id,
                     name |-> Str(IF farmer_name # "" THEN farmer_name ELSE "Farmer"),
                     phone |-> farmer_phone,
                     village |-> "Pune, Maharashtra",
                     status |-> "Connected",
                     totalEarnings |-> 0,
                     history |-> << >>])
        ELSE IF /\ farmer_name # "" /\ farmer_name # "Farmer"
                /\ DictGet(farmer, "name", None) \in {Str("Unknown"), Str("Farmer"), None}
        THEN UpdateOne(farmers, "id", farmer_id, [name |-> Str(farmer_name)])
        ELSE farmers

\* Lines 594-631: the DriverAssignment built from the farmer and the driver
\* the call holds; the booking id is the time of the call.
NewAssignment(farmer, driver, booking_id, farmer_id, farmer_phone, destination_mandi, crop_type, quantity_kg) ==
    LET mandi_info == MandiInfo(destination_mandi)
        distance == calculate_distance(
                       get_farmer_coordinates(DictGet(farmer, "village",
                                                      "Pune, Maharashtra")),
                       mandi_info.place)
    IN  [booking_id |-> booking_id,
         farmer_id |-> farmer_id,
         farmer_name |-> DictGet(farmer, "name", Str("Unknown")),
         farmer_phone |-> farmer_phone,
         driver_id |-> DictGet(driver, "id", "D000"),
         driver_name |-> DictGet(driver, "name", "Unknown"),
         vehicle_type |-> DictGet(driver, "vehicleType", "Tata Ace"),
         vehicle_capacity_kg |-> DriverCapacity(driver),
         pickup_location |-> DictGet(farmer, "village", "Unknown"),
         destination_mandi |-> destination_mandi,
         crop_type |-> crop_type,
         quantity_kg |-> quantity_kg,
         estimated_distance_km |-> distance,
         \* round(distance * rate * (quantity_kg / 100), 2)
         estimated_cost |->
            RoundDiv(distance * mandi_info.transport_rate_per_km * quantity_kg,
                     100),
         status |-> "assigned"]

\* Lines 633-644: db["drivers"].update_one({"id": driver.get("id")}, {"$set": ...})
DriversAfterAssignment(drivers, assignment, driver) ==
    UpdateOne(drivers, "id", DictGet(driver, "id", None),
       [status |-> "Busy",
        currentLoad |-> [kg |-> assignment.quantity_kg, crop |-> assignment.crop_type],
        currentBooking |-> assignment.booking_id,
        destination |-> assignment.destination_mandi])

\* Lines 648-670: the transaction is pushed on the history of the stored
\* farmer and totalEarnings incremented
FarmersAfterAssignment(farmers, assignment, driver, expected_profit) ==
    LET stored == FindOne(farmers, "id", assignment.farmer_id)
        transaction ==
            [booking_id |-> assignment.booking_id, crop |-> assignment.crop_type,
             quantity_kg |-> assignment.quantity_kg,
             mandi |-> assignment.destination_mandi,
             expected_profit |-> expected_profit,
             driver_id |-> DictGet(driver, "id", None),
             status |-> "assigned"]
    IN  IF IsNone(stored) THEN farmers
        ELSE UpdateOne(farmers, "id", assignment.farmer_id,
                [history |-> Append(stored.history, transaction),
                 status |-> "Connected",
                 totalEarnings |-> stored.totalEarnings + expected_profit])

\* Lines 673-677: db["bookings"].insert_one(booking_data)
BookingsAfterAssignment(bookings, assignment, expected_profit, farmer_name) ==
    Append(bookings,
           assignment @@ [expected_profit |-> expected_profit,
                          farmer_profile_name |-> farmer_name])

\* assign_driver_for_transport(db, farmer_id, farmer_phone, farmer_name,
\* destination_mandi, crop_type, quantity_kg, expected_profit) run without
\* another call in between: the collections afterwards and the
\* DriverAssignment returned (or None).  The booking id, the second of the
\* call, is the number of the booking.
assign_driver_for_transport(d, farmer_id, farmer_phone, farmer_name, destination_mandi, crop_type, quantity_kg, expected_profit) ==
    LET farmers == FarmersAfterLookup(d.farmers, farmer_id, farmer_phone, farmer_name)
        farmer == FindOne(farmers, "id", farmer_id)
        available_drivers == AvailableDrivers(d.drivers)
        driver == SelectDriver(available_drivers, quantity_kg)
        assignment == NewAssignment(farmer, driver, Len(d.bookings) + 1, farmer_id,
                                    farmer_phone, destination_mandi, crop_type,
                                    quantity_kg)
    IN  IF available_drivers = << >>
        THEN [db |-> [d EXCEPT !.farmers = farmers], assignment |-> None]
        ELSE [db |->
                [d EXCEPT
                   !.drivers = DriversAfterAssignment(d.drivers, assignment, driver),
                   !.farmers = FarmersAfterAssignment(farmers, assignment, driver,
                                                      expected_profit),
                   !.bookings = BookingsAfterAssignment(d.bookings, assignment,
                                                        expected_profit, farmer_name)],
              assignment |-> assignment]

\* ------------------------------------------------------------------------
\* The WhatsApp selling dialogue: handle_market_conversation
\* (backend/app/agents/market_agent.py, lines 766-1137)
\*
\* A message is its text.  What the handler computes from a text (lower(),
\* title(), the digits in it, int(), a keyword in it) is tabulated for the
\* texts of the model.  An Optional field of ConversationState is None,
\* Str(s) or Num(n).  The timestamps of the state are left out (expires_at
\* is written but never read).
\* ------------------------------------------------------------------------

\* message.strip().lower()
MessageLower(message) ==
    CASE message = "YES" -> "yes"
      [] message = "Ramesh Patil" -> "ramesh patil"
      [] message = "Pune" -> "pune"
      [] message = "Nashik" -> "nashik"
      [] message = "Ginger" -> "ginger"
      [] message = "Mumbai Wholesale" -> "mumbai wholesale"
      [] message = "Nashik Mandi" -> "nashik mandi"
      [] OTHER -> message

\* message.strip().title()
MessageTitle(message) ==
    CASE message = "YES" -> "Yes"
      [] message = "tomato" -> "Tomato"
      [] message = "maybe" -> "Maybe"
      [] message = "100 kg" -> "100 Kg"
      [] OTHER -> message

\* any(kw in message_lower for kw in start_keywords), line 825: "sell" is a
\* keyword; "nashik" and "nahi" contain the keyword "hi", "nashik mandi" the
\* keywords "mandi" and "hi"
ContainsStartKeyword(message_lower) ==
    message_lower \in {"sell", "nashik", "nashik mandi", "nahi"}

\* The first of re.findall(r'\d+', message_lower) as a float, or None
FirstNumber(message_lower) ==
    CASE message_lower = "100 kg" -> Num(100)
      [] message_lower = "-5" -> Num(5)
      [] message_lower = "2000" -> Num(2000)
      [] message_lower = "20000" -> Num(20000)
      [] message_lower = "0" -> Num(0)
      [] message_lower = "1" -> Num(1)
      [] message_lower = "2" -> Num(2)
      [] message_lower = "7" -> Num(7)
      [] OTHER -> None

\* int(message), or None when it raises
IntOf(message) ==
    IF message \in {"2000", "20000", "0", "1", "2", "7"}
    THEN FirstNumber(message) ELSE None

\* crop_map.get(message_lower), lines 967-990, or None
CropMapGet(message_lower) ==
    CASE message_lower \in {"1", "tomato"} -> Str("Tomatoes")
      [] message_lower = "2" -> Str("Onions")
      [] OTHER -> None

\* Lines 909-921: the first known location the typed name is part of, else
\* the typed name with ", Maharashtra" added
MatchedVillage(village_input) ==
    CASE village_input = "Pune" -> "Pune, Maharashtra"
      [] village_input = "Yes" -> "Yes, Maharashtra"
      [] village_input = "Maybe" -> "Maybe, Maharashtra"
      [] OTHER -> village_input

\* opt["mandi_name"].lower() in message_lower, line 1074
MandiNameInMessage(mandi_name, message_lower) ==
    /\ mandi_name \in {"Mumbai Wholesale", "Nashik Mandi"}
    /\ message_lower = MessageLower(mandi_name)

ConversationPhone == "+919876543210"

\* get_conversation_state(db, farmer_phone)
get_conversation_state(d, farmer_phone) ==
    DictGet(d.conversation_states, farmer_phone, None)

\* save_conversation_state(db, state): every field of the state is set
save_conversation_state(d, state) ==
    [d EXCEPT !.conversation_states =
                 DictSet(d.conversation_states, state.farmer_phone, state)]

\* clear_conversation_state(db, farmer_phone)
clear_conversation_state(d, farmer_phone) ==
    [d EXCEPT !.conversation_states =
                 [phone \in DOMAIN d.conversation_states \ {farmer_phone} |->
                     d.conversation_states[phone]]]

\* ConversationState(...) of lines 835-844 and 866-876: the fields not given
\* are None
NewConversationState(farmer_id, farmer_phone, farmer_name, farmer_village, is_new_farmer, current_step) ==
    [farmer_id |-> farmer_id, farmer_phone |-> farmer_phone,
     farmer_name |-> farmer_name, farmer_village |-> farmer_village,
     is_new_farmer |-> is_new_farmer, current_step |-> current_step,
     selected_crop |-> None, quantity_kg |-> None, selected_mandi |-> None,
     expected_profit |-> None, market_analysis |-> None]

\* Mutant of StartConversation: a farmer already known is asked to register
\* again.
StartConversationAsNewFarmer(d, clean_phone, profile_name) ==
    [db |-> save_conversation_state(d,
               NewConversationState("F_9876543210", clean_phone, profile_name,
                                    None, TRUE, "awaiting_name")),
     reply |-> "ask_name", assign_called |-> FALSE]

\* Lines 825-881: a new conversation is started
StartConversation(d, clean_phone, profile_name) ==
    LET farmer == FindOne(d.farmers, "phone", clean_phone)
    IN  IF IsNone(farmer)
        THEN [db |-> save_conversation_state(d,
                        NewConversationState("F_9876543210", clean_phone,
                                             profile_name, None, TRUE,
                                             "awaiting_name")),
              reply |-> "ask_name", assign_called |-> FALSE]
        ELSE [db |-> save_conversation_state(d,
                        NewConversationState(
                           farmer.id, clean_phone,
                           DictGet(farmer, "name",
                                   IF IsNone(profile_name) THEN Str("Farmer")
                                   ELSE profile_name),
                           Str(DictGet(farmer, "village", "Pune, Maharashtra")),
                           FALSE, "awaiting_crop")),
              reply |-> "crop_selection", assign_called |-> FALSE]

\* Lines 1058-1101: the reply to the mandi options
ChooseMandi(d, state, message, message_lower) ==
    LET mandi_options == state.market_analysis.mandi_options
        choice == IntOf(message)
        named == {i \in 1..Len(mandi_options) :
                     MandiNameInMessage(mandi_options[i].mandi_name, message_lower)}
        chosen(i) ==
            [db |-> save_conversation_state(d,
                       [state EXCEPT
                           !.selected_mandi = Str(mandi_options[i].mandi_name),
                           !.expected_profit = Num(mandi_options[i].net_profit),
                           !.current_step = "awaiting_confirmation"]),
             reply |-> "order_summary", assign_called |-> FALSE]
    IN  IF ~IsNone(choice)
        THEN IF choice.num < 1 \/ choice.num > Len(mandi_options)
             THEN [db |-> d, reply |-> "select_a_number", assign_called |-> FALSE]
             ELSE chosen(choice.num)
        ELSE IF named = {}
        THEN [db |-> d, reply |-> "reply_with_a_number", assign_called |-> FALSE]
        ELSE chosen(CHOOSE i \in named : \A j \in named : i <= j)

\* Mutant of ConfirmOrder: every reply that is not a refusal confirms.
ConfirmOrderUnlessRefused(d, state, clean_phone, message_lower) ==
    IF message_lower \notin {"no", "n", "nahi", "cancel"}
    THEN LET assigned ==
                assign_driver_for_transport(
                   d, state.farmer_id, clean_phone,
                   IF IsNone(state.farmer_name) \/ state.farmer_name = Str("")
                   THEN "Farmer" ELSE state.farmer_name.str,
                   state.selected_mandi.str, state.selected_crop.str,
                   state.quantity_kg.num,
                   IF IsNone(state.expected_profit) THEN 0
                   ELSE state.expected_profit.num)
         IN  [db |-> clear_conversation_state(assigned.db, clean_phone),
              reply |-> IF IsNone(assigned.assignment) THEN "no_drivers"
                        ELSE "booking_confirmed",
              assign_called |-> TRUE]
    ELSE IF message_lower \in {"no", "n", "nahi", "cancel"}
    THEN [db |-> clear_conversation_state(d, clean_phone),
          reply |-> "order_cancelled", assign_called |-> FALSE]
    ELSE [db |-> d, reply |-> "yes_or_no", assign_called |-> FALSE]

\* Lines 1103-1131: the reply to the order summary
ConfirmOrder(d, state, clean_phone, message_lower) ==
    IF message_lower \in {"yes", "y", "haan", "ha", "confirm", "ok"}
    THEN LET assigned ==
                assign_driver_for_transport(
                   d, state.farmer_id, clean_phone,
                   IF IsNone(state.farmer_name) \/ state.farmer_name = Str("")
                   THEN "Farmer" ELSE state.farmer_name.str,
                   state.selected_mandi.str, state.selected_crop.str,
                   state.quantity_kg.num,
                   IF IsNone(state.expected_profit) THEN 0
                   ELSE state.expected_profit.num)
         IN  [db |-> clear_conversation_state(assigned.db, clean_phone),
              reply |-> IF IsNone(assigned.assignment) THEN "no_drivers"
                        ELSE "booking_confirmed",
              assign_called |-> TRUE]
    ELSE IF message_lower \in {"no", "n", "nahi", "cancel"}
    THEN [db |-> clear_conversation_state(d, clean_phone),
          reply |-> "order_cancelled", assign_called |-> FALSE]
    ELSE [db |-> d, reply |-> "yes_or_no", assign_called |-> FALSE]

\* handle_market_conversation(db, farmer_phone, message, profile_name).
\* found is what the market_items lookup of analyze_market_for_crop answers
\* at the quantity step.  Gives the collections afterwards, the reply and
\* whether assign_driver_for_transport was called.
handle_market_conversation(d, clean_phone, message, profile_name, found) ==
    LET state == get_conversation_state(d, clean_phone)
        message_lower == MessageLower(message)
        step == IF IsNone(state) THEN "none" ELSE state.current_step
        saved(new_state, reply) ==
            [db |-> save_conversation_state(d, new_state), reply |-> reply,
             assign_called |-> FALSE]
        quantity == FirstNumber(message_lower)
    IN  IF ContainsStartKeyword(message_lower) \/ IsNone(state)
        THEN StartConversation(d, clean_phone, profile_name)
        ELSE CASE step = "awaiting_name" ->
                saved([state EXCEPT !.farmer_name = Str(MessageTitle(message)),
                                    !.current_step = "awaiting_village"],
                      "ask_village")
          [] step = "awaiting_village" ->
                LET matched_village == MatchedVillage(MessageTitle(message))
                    with_farmer ==
                       [d EXCEPT !.farmers =
                           Append(d.farmers,
                                  [id |-> state.farmer_id,
                                   name |-> state.farmer_name,
                                   phone |-> state.farmer_phone,
                                   village |-> matched_village,
                                   status |-> "Connected",
                                   totalEarnings |-> 0,
                                   history |-> << >>])]
                IN  [db |-> save_conversation_state(with_farmer,
                               [state EXCEPT
                                   !.farmer_village = Str(matched_village),
                                   !.is_new_farmer = FALSE,
                                   !.current_step = "awaiting_crop"]),
                     reply |-> "welcome_crop_selection",
                     assign_called |-> FALSE]
          [] step = "awaiting_crop" ->
                IF message_lower \in {"7", "other"}
                THEN saved([state EXCEPT !.current_step = "awaiting_custom_crop"],
                           "type_crop_name")
                ELSE saved([state EXCEPT
                               !.selected_crop =
                                  IF IsNone(CropMapGet(message_lower))
                                  THEN Str(MessageTitle(message))
                                  ELSE CropMapGet(message_lower),
                               !.current_step = "awaiting_quantity"],
                           "quantity_prompt")
          [] step = "awaiting_custom_crop" ->
                saved([state EXCEPT !.selected_crop = Str(MessageTitle(message)),
                                    !.current_step = "awaiting_quantity"],
                      "quantity_prompt")
          [] step = "awaiting_quantity" ->
                IF IsNone(quantity)
                THEN [db |-> d, reply |-> "enter_valid_quantity",
                      assign_called |-> FALSE]
                ELSE IF quantity.num <= 0 \/ quantity.num > 10000
                THEN [db |-> d, reply |-> "quantity_between_1_and_10000",
                      assign_called |-> FALSE]
                ELSE saved([state EXCEPT
                               !.quantity_kg = quantity,
                               !.market_analysis =
                                  analyze_market_for_crop(
                                     FindOne(d.farmers, "id", state.farmer_id),
                                     state.selected_crop.str, quantity.num,
                                     "Pune, Maharashtra", found, << >>,
                                     <<950, 1050, 900, 920, 880>>,
                                     [kind |-> "unavailable"]),
                               !.current_step = "awaiting_mandi_choice"],
                           "market_options")
          [] step = "awaiting_mandi_choice" ->
                ChooseMandi(d, state, message, message_lower)
          [] step = "awaiting_confirmation" ->
                ConfirmOrder(d, state, clean_phone, message_lower)
          [] OTHER ->
                [db |-> clear_conversation_state(d, clean_phone),
                 reply |-> "welcome", assign_called |-> FALSE]

\* The collections before the first message: no farmer, no booking, no
\* conversation; two drivers are Available (one without a vehicleType), one
\* is Busy.
InitialDatabase ==
    [farmers |-> << >>,
     drivers |->
        <<[id |-> "D001", name |-> "Suresh", vehicleType |-> "Tata 407",
           status |-> "Available"],
          [id |-> "D002", name |-> "Mahesh", vehicleType |-> "Tata 709",
           status |-> "Busy"],
          [id |-> "D003", name |-> "Ganesh", status |-> "Available"]>>,
     bookings |-> << >>,
     conversation_states |-> EmptyDict]

NoTurn == [message |-> "", step |-> "none", reply |-> "", assign_called |-> FALSE]

\* ------------------------------------------------------------------------
\* WorkflowOrchestrator.execute_workflow as a state machine
\* (backend/app/agents/workflow_orchestrator.py, lines 25-120)
\* ------------------------------------------------------------------------

VARIABLES
    pc,               \* where execute_workflow is: "idle", a stage name,
                      \* "synthesis" or "returned"
    crop_data,        \* the arguments of the running invocation
    logistics_params,
    market_params,
    results,          \* the results dict of the running (or last) invocation
    invoked,          \* the stage calls made by the running invocation, in order
    invocations,      \* how many invocations have started (the workflow_id)
    workflow_history, \* self.workflow_history: one summary per appended
                      \* results dict, [workflow_id, status]
    agent_call,       \* the last direct call of an agent function (outside
                      \* the pipeline): its name, arguments and result
    db,               \* the collections the WhatsApp dialogue reads and
                      \* writes: farmers, drivers, bookings,
                      \* conversation_states
    last_turn,        \* the last message handle_market_conversation
                      \* handled, the stored state it found and what it did
    in_flight         \* the calls of assign_driver_for_transport that run
                      \* concurrently: for each the await it is suspended
                      \* at, its arguments and its local variables

vars == <<pc, crop_data, logistics_params, market_params, results, invoked,
          invocations, workflow_history, agent_call, db, last_turn, in_flight>>

\* No agent function has been called directly.
NoCall == [op |-> "none"]

StageNames == {"freshness", "market", "logistics", "weather"}

\* __init__ (lines 25-30): no invocation yet, an empty history
Init ==
    /\ pc = "idle"
    /\ crop_data = None
    /\ logistics_params = None
    /\ market_params = None
    /\ results = None
    /\ invoked = << >>
    /\ invocations = 0
    /\ workflow_history = << >>
    /\ agent_call = NoCall
    /\ db = InitialDatabase
    /\ last_turn = NoTurn
    /\ in_flight = << >>

\* Lines 62-68: a caller invokes execute_workflow; results starts in_progress
\* with no stage recorded.
StartWorkflow ==
    /\ pc \in {"idle", "returned"}
    /\ invocations < MaxInvocations
    /\ \E cd \in CropDataInputs, lp \in LogisticsParamsInputs, mp \in MarketParamsInputs :
          /\ crop_data' = cd
          /\ logistics_params' = lp
          /\ market_params' = mp
    /\ invocations' = invocations + 1
    /\ results' = [workflow_id |-> invocations + 1,
                   status |-> "in_progress",
                   stages |-> EmptyDict]
    /\ invoked' = << >>
    /\ pc' = "freshness"
    /\ UNCHANGED <<workflow_history, agent_call, db, last_turn, in_flight>>

\* results["stages"][name] = stage_result
RecordStage(name, stage_result) ==
    [results EXCEPT !.stages = DictSet(results.stages, name, stage_result)]

\* Mutant of FreshnessStage: a failed freshness call is retried.
FreshnessStageRetrying ==
    /\ pc = "freshness"
    /\ \E outcome \in PredictFreshnessOutcomes :
          /\ results' = RecordStage("freshness",
                                    _execute_freshness_stage(crop_data, outcome))
          /\ pc' = IF outcome.raises /\ Len(invoked) < 2 THEN "freshness" ELSE "market"
    /\ invoked' = Append(invoked, "freshness")
    /\ UNCHANGED <<crop_data, logistics_params, market_params, invocations,
                   workflow_history, agent_call, db, last_turn, in_flight>>

\* Lines 72-73
FreshnessStage ==
    /\ pc = "freshness"
    /\ \E outcome \in PredictFreshnessOutcomes :
          results' = RecordStage("freshness", _execute_freshness_stage(crop_data, outcome))
    /\ invoked' = Append(invoked, "freshness")
    /\ pc' = "market"
    /\ UNCHANGED <<crop_data, logistics_params, market_params, invocations,
                   workflow_history, agent_call, db, last_turn, in_flight>>

\* Lines 76-82
MarketStage ==
    /\ pc = "market"
    /\ \E fetch_outcome \in FetchMarketDataOutcomes :
       \E price_outcome \in
              IF fetch_outcome.raises \/ results.stages["freshness"]["status"] # "success"
              THEN {Raised("not called")}
              ELSE DetermineBestPriceOutcomes :
          results' = RecordStage("market",
                        _execute_market_stage(crop_data, results.stages["freshness"],
                                              market_params, fetch_outcome, price_outcome))
    /\ invoked' = Append(invoked, "market")
    /\ pc' = "logistics"
    /\ UNCHANGED <<crop_data, logistics_params, market_params, invocations,
                   workflow_history, agent_call, db, last_turn, in_flight>>

\* Lines 85-91
LogisticsStage ==
    /\ pc = "logistics"
    /\ \E db_outcome \in FindDriversOutcomes :
          results' = RecordStage("logistics",
                        _execute_logistics_stage(crop_data, results.stages["freshness"],
                                                 logistics_params, db_outcome))
    /\ invoked' = Append(invoked, "logistics")
    /\ pc' = "weather"
    /\ UNCHANGED <<crop_data, logistics_params, market_params, invocations,
                   workflow_history, agent_call, db, last_turn, in_flight>>

\* Mutant of WeatherStage: the transport duration handed to the weather agent
\* is the Logistics stage's estimated delivery time when that stage succeeded.
WeatherStageUsingLogistics ==
    /\ pc = "weather"
    /\ \E outcome \in AssessWeatherOutcomes(
              IF results.stages["logistics"]["status"] = "success"
              THEN results.stages["logistics"]["delivery_recommendation"]
                       ["delivery_details"]["estimated_delivery_hours"]
              ELSE TransportDuration(logistics_params)) :
          results' = RecordStage("weather",
                        _execute_weather_stage(crop_data, logistics_params, outcome))
    /\ invoked' = Append(invoked, "weather")
    /\ pc' = "synthesis"
    /\ UNCHANGED <<crop_data, logistics_params, market_params, invocations,
                   workflow_history, agent_call, db, last_turn, in_flight>>

\* Lines 94-99
WeatherStage ==
    /\ pc = "weather"
    /\ \E outcome \in AssessWeatherOutcomes(TransportDuration(logistics_params)) :
          results' = RecordStage("weather",
                        _execute_weather_stage(crop_data, logistics_params, outcome))
    /\ invoked' = Append(invoked, "weather")
    /\ pc' = "synthesis"
    /\ UNCHANGED <<crop_data, logistics_params, market_params, invocations,
                   workflow_history, agent_call, db, last_turn, in_flight>>

\* The entry execute_workflow appends to self.workflow_history (line 118)
HistoryEntry(r) == [workflow_id |-> r.workflow_id, status |-> r.status]

\* Lines 102-120 when _synthesize_results returns: the synthesis is stored,
\* the status becomes "completed", the results are appended to the history
\* and returned.
SynthesisCompletes ==
    /\ pc = "synthesis"
    /\ ~SynthesisRaises(results.stages["freshness"], results.stages["market"],
                        results.stages["logistics"], results.stages["weather"])
    /\ results' = DictSet([results EXCEPT !.status = "completed"], "synthesis",
                     _synthesize_results(results.stages["freshness"],
                                         results.stages["market"],
                                         results.stages["logistics"],
                                         results.stages["weather"]))
    /\ workflow_history' = Append(workflow_history, HistoryEntry(results'))
    /\ invoked' = Append(invoked, "synthesis")
    /\ pc' = "returned"
    /\ UNCHANGED <<crop_data, logistics_params, market_params, invocations, agent_call, db, last_turn, in_flight>>

\* Mutant of SynthesisFails: no handler, the exception reaches the caller.
SynthesisFailsPropagating ==
    /\ pc = "synthesis"
    /\ SynthesisRaises(results.stages["freshness"], results.stages["market"],
                       results.stages["logistics"], results.stages["weather"])
    /\ invoked' = Append(invoked, "synthesis")
    /\ pc' = "raised"
    /\ UNCHANGED <<crop_data, logistics_params, market_params, results, invocations,
                   workflow_history, agent_call, db, last_turn, in_flight>>

\* Mutant of SynthesisFails: the failed invocation returns without being
\* appended to the history.
SynthesisFailsUnrecorded ==
    /\ pc = "synthesis"
    /\ SynthesisRaises(results.stages["freshness"], results.stages["market"],
                       results.stages["logistics"], results.stages["weather"])
    /\ results' = DictSet([results EXCEPT !.status = "error"], "error",
                          "synthesis raised")
    /\ invoked' = Append(invoked, "synthesis")
    /\ pc' = "returned"
    /\ UNCHANGED <<crop_data, logistics_params, market_params, invocations,
                   workflow_history, agent_call, db, last_turn, in_flight>>

\* Lines 102-120 when _synthesize_results raises: the handler of line 113
\* sets the status to "error" and records the message; the results are
\* appended to the history and returned.
SynthesisFails ==
    /\ pc = "synthesis"
    /\ SynthesisRaises(results.stages["freshness"], results.stages["market"],
                       results.stages["logistics"], results.stages["weather"])
    /\ results' = DictSet([results EXCEPT !.status = "error"], "error",
                          "synthesis raised")
    /\ workflow_history' = Append(workflow_history, HistoryEntry(results'))
    /\ invoked' = Append(invoked, "synthesis")
    /\ pc' = "returned"
    /\ UNCHANGED <<crop_data, logistics_params, market_params, invocations, agent_call, db, last_turn, in_flight>>

Next ==
    \/ StartWorkflow
    \/ FreshnessStage
    \/ MarketStage
    \/ LogisticsStage
    \/ WeatherStage
    \/ SynthesisCompletes
    \/ SynthesisFails

Spec == Init /\ [][Next]_vars

\* Every await of execute_workflow returns once its collaborator answers, so
\* a started invocation keeps taking steps; starting one is up to the caller.
Running ==
    \/ FreshnessStage
    \/ MarketStage
    \/ LogisticsStage
    \/ WeatherStage
    \/ SynthesisCompletes
    \/ SynthesisFails

FairSpec == Spec /\ WF_vars(Running)

\* ------------------------------------------------------------------------
\* Direct calls of the agents' functions
\* (backend/app/agents/logistics_agent.py, backend/app/agents/market_agent.py)
\*
\* A caller other than the pipeline calls one function of an agent with
\* arguments of its own; agent_call records the call and what it returned.
\* The functions keep no state between calls, so each call is explored from
\* the state in which none has been made.
\* ------------------------------------------------------------------------

OrchestratorVars == <<pc, crop_data, logistics_params, market_params, results,
                      invoked, invocations, workflow_history>>

\* Arguments of recommend_delivery_mode: scores in thousandths around the
\* threshold 20, every level and a string that is none of them, distances
\* around 6 h and 24 h of travel at 60 / 70 / 80 km/h, and a window that is
\* None, 0, 6 or 24 hours.
DirectFreshnessScores == {1500, 19999, 20000, 45000, 90000}

DirectFreshnessLevels == FreshnessLevels \cup {"UNKNOWN"}

DirectDistances == {0, 100, 360, 361, 420, 421, 480, 481, 500, 1440, 1441, 2000}

DirectQuantities == {0, 150}

DirectWindows == {None, Num(0), Num(6), Num(24)}

CallRecommendDeliveryMode ==
    /\ agent_call = NoCall
    /\ \E freshness_score \in DirectFreshnessScores,
          freshness_level \in DirectFreshnessLevels,
          distance_km \in DirectDistances,
          quantity \in DirectQuantities,
          availability_window_hours \in DirectWindows :
          agent_call' =
             [op |-> "recommend_delivery_mode",
              freshness_score |-> freshness_score,
              freshness_level |-> freshness_level,
              distance_km |-> distance_km,
              quantity |-> quantity,
              availability_window_hours |-> availability_window_hours,
              result |-> recommend_delivery_mode(freshness_score, freshness_level,
                             distance_km, quantity, availability_window_hours)]
    /\ UNCHANGED <<OrchestratorVars, db, last_turn, in_flight>>

\* Driver records for direct calls of optimize_delivery_route: DriverB and
\* DriverD score the same for every shipment, DriverC reaches the cap of 100,
\* DriverE has none of the optional fields.
DriverC ==
    [_id |-> "d3", name |-> "Meera", vehicle_type |-> "refrigerated",
     capacity |-> 600, rating |-> 50, available_hours |-> 12]

DriverD ==
    [_id |-> "d4", name |-> "Kiran", vehicle_type |-> "standard",
     capacity |-> 300, rating |-> 40, available_hours |-> 6]

DriverE == [_id |-> "d5"]

DirectDrivers == {DriverA, DriverB, DriverC, DriverD, DriverE}

\* Every list of distinct drivers (the drivers collection holds a driver once)
DriverPools ==
    UNION {{pool \in [1..n -> DirectDrivers] :
               \A i, j \in 1..n : i # j => pool[i] # pool[j]} :
           n \in 0..Cardinality(DirectDrivers)}

\* shipment_info dicts: with or without freshness_level, quantity absent,
\* 0 or positive
DirectShipments ==
    {[quantity |-> 150], [quantity |-> 400], [quantity |-> 0], EmptyDict}
    \cup {[freshness_level |-> level, quantity |-> 150] :
             level \in {"CRITICAL", "GOOD", "EXCELLENT"}}

CallOptimizeDeliveryRoute ==
    /\ agent_call = NoCall
    /\ \E drivers \in DriverPools, shipment_info \in DirectShipments :
          agent_call' =
             [op |-> "optimize_delivery_route",
              drivers |-> drivers,
              shipment_info |-> shipment_info,
              outcome |->
                 IF OptimizeRouteRaises(drivers, shipment_info)
                 THEN Raised("division by zero")
                 ELSE Returned(optimize_delivery_route(drivers, shipment_info, "market"))]
    /\ UNCHANGED <<OrchestratorVars, db, last_turn, in_flight>>

\* Records of the market_items collection (prices in paise).  ItemPune and
\* ItemBazaar give the same net profit for every farmer and quantity (an
\* unknown mandi has Pune's coordinates and rate); ItemHaat has only a name
\* and a price, ItemNashik has no price.
ItemPune ==
    [id |-> "M101", cropName |-> "Tomato", mandiName |-> "Pune APMC",
     price |-> 2095, trend |-> "up", spoilageRisk |-> "Critical"]

ItemHaat == [cropName |-> "Tomato", mandiName |-> "Village Haat", price |-> 700]

ItemBazaar ==
    [id |-> "M103", cropName |-> "Tomato", mandiName |-> "Local Bazaar",
     price |-> 2095, trend |-> "stable", spoilageRisk |-> "Low"]

ItemMumbai ==
    [id |-> "M104", cropName |-> "Tomato", mandiName |-> "Mumbai Wholesale",
     price |-> 2600, trend |-> "down", spoilageRisk |-> "Medium"]

ItemNashik == [id |-> "M105", cropName |-> "Tomato", mandiName |-> "Nashik Mandi"]

ItemOnion ==
    [id |-> "M106", cropName |-> "Onion", mandiName |-> "Pune APMC",
     price |-> 4000, trend |-> "stable", spoilageRisk |-> "Low"]

DirectMarketItems == {ItemPune, ItemHaat, ItemBazaar, ItemMumbai, ItemNashik}

\* Answers of the first find: every list of distinct items of the crop
MarketItemLists ==
    UNION {{items \in [1..n -> DirectMarketItems] :
               \A i, j \in 1..n : i # j => items[i] # items[j]} :
           n \in 0..Cardinality(DirectMarketItems)}

\* Answers of the second find (made when the first found nothing)
AllItemsLists == {<< >>, <<ItemOnion>>, <<ItemOnion, ItemMumbai>>}

\* The two ends of each random.uniform range of lines 340-348, in thousandths
DefaultFactors ==
    {<<f1, f2, f3, f4, f5>> :
        f1 \in {950, 1150}, f2 \in {1050, 1250}, f3 \in {900, 1100},
        f4 \in {920, 1120}, f5 \in {880, 1080}}

\* db.farmers.find_one: no farmer, or a farmer of Nashik
FarmerLookups ==
    {None, [id |-> "F001", name |-> "Sunita", village |-> "Nashik, Maharashtra"]}

DirectMarketQuantities == {100, 500}

\* The advisory call of get_ai_market_insight: not made (library or API key
\* missing), raised, or answered
AdvisoryOutcomes ==
    {[kind |-> "unavailable"], [kind |-> "raised"],
     [kind |-> "text", text |-> "Sell at Pune APMC this week."]}

CallAnalyzeMarketForCrop ==
    /\ agent_call = NoCall
    /\ \E farmer_found \in FarmerLookups,
          quantity_kg \in DirectMarketQuantities,
          found \in MarketItemLists,
          advisory \in AdvisoryOutcomes :
       \E all_items \in (IF found = << >> THEN AllItemsLists ELSE {<< >>}) :
       \E factors \in (IF found = << >> /\ all_items # <<ItemOnion, ItemMumbai>>
                       THEN DefaultFactors
                       ELSE {<<950, 1050, 900, 920, 880>>}) :
          agent_call' =
             [op |-> "analyze_market_for_crop",
              farmer_found |-> farmer_found,
              crop_type |-> "tomato",
              quantity_kg |-> quantity_kg,
              found |-> found,
              all_items |-> all_items,
              factors |-> factors,
              advisory |-> advisory,
              result |-> analyze_market_for_crop(farmer_found, "tomato", quantity_kg,
                             "Pune, Maharashtra", found, all_items, factors, advisory)]
    /\ UNCHANGED <<OrchestratorVars, db, last_turn, in_flight>>

\* The pipeline's freshness stage on one crop observation:
\* _execute_freshness_stage(crop_data) with the freshness scorer answering.
\* A key may be absent from crop_data (lines 126-129 then pass "unknown",
\* 25, 70 and 0); age_hours may be None.
CallExecuteFreshnessStage ==
    /\ agent_call = NoCall
    /\ \E observation \in
             {EmptyDict, [crop_name |-> "tomatoes"]}
             \cup [crop_name : {"tomatoes", "millet"},
                   temperature : {-10, -5, 10, 20, 21, 26, 45, 60},
                   humidity : {0, 40, 45, 50, 60, 70, 80, 90, 95, 100},
                   age_hours : {None, Num(0), Num(21), Num(84), Num(500)}] :
          agent_call' =
             [op |-> "_execute_freshness_stage",
              crop_data |-> observation,
              result |->
                 _execute_freshness_stage(observation,
                    Returned(predict_freshness(
                                DictGet(observation, "crop_name", "unknown"),
                                DictGet(observation, "temperature", 25),
                                DictGet(observation, "humidity", 70),
                                DictGet(observation, "age_hours", Num(0)))))]
    /\ UNCHANGED <<OrchestratorVars, db, last_turn, in_flight>>

\* get_mock_forecast(lat, lon) of backend/app/services/weather_api.py, lines
\* 258-291.  draws[i] holds what the calls of the random module return for
\* period i: is_rainy is random.random() < 0.3, temperature is
\* round(random.uniform(22, 35), 1) in tenths of a degree, humidity a
\* random.randint, main the random.choice of line 277.  The period's datetime
\* is given as hours after datetime.utcnow(); feels_like, wind_speed and the
\* rain figures (further draws) and fetched_at (wall clock) are left out.
get_mock_forecast(place, draws) ==
    [location |-> "Pune",
     country |-> "IN",
     place |-> place,
     forecasts |->
        [i \in 1..MockPeriods |->
            [hours_ahead |-> (i - 1) * 3,
             temperature |-> draws[i].temperature,
             humidity |-> draws[i].humidity,
             weather_main |-> IF draws[i].is_rainy THEN "Rain" ELSE draws[i].main,
             weather_description |->
                IF draws[i].is_rainy THEN "light rain" ELSE "partly cloudy"]]]

\* get_weather_forecast(lat, lon), lines 143-196: without OPENWEATHER_API_KEY
\* ("no_key") or when the request or its parsing raises ("raises") the
\* forecast is the mock one; else it is the one the service sent.
get_weather_forecast(place, api, draws) ==
    IF api.kind \in {"no_key", "raises"} THEN get_mock_forecast(place, draws)
    ELSE api.forecast

\* A caller requests the forecast of a place, and then once more the
\* forecast of the same place.
CallGetWeatherForecast ==
    /\ \/ agent_call = NoCall
       \/ agent_call.op = "get_weather_forecast" /\ IsNone(agent_call.previous)
    /\ \E place \in (IF agent_call = NoCall THEN {"Pune", "Nashik"}
                     ELSE {agent_call.place}),
          api \in {[kind |-> "no_key"], [kind |-> "raises"],
                   [kind |-> "answers",
                    forecast |-> [location |-> "Pune", country |-> "IN",
                                  place |-> "Pune", forecasts |-> << >>]]},
          draws \in [1..MockPeriods ->
                        {[is_rainy |-> TRUE, temperature |-> 220, humidity |-> 90,
                          main |-> "Clear"],
                         [is_rainy |-> FALSE, temperature |-> 350, humidity |-> 40,
                          main |-> "Clear"],
                         [is_rainy |-> FALSE, temperature |-> 220, humidity |-> 70,
                          main |-> "Clouds"]}] :
          agent_call' =
             [op |-> "get_weather_forecast",
              place |-> place,
              api |-> api,
              forecast |-> get_weather_forecast(place, api, draws),
              previous |-> IF agent_call = NoCall THEN None
                           ELSE [api |-> agent_call.api,
                                 forecast |-> agent_call.forecast]]
    /\ UNCHANGED <<OrchestratorVars, db, last_turn, in_flight>>

\* What client.models.generate_content can do when analyze_freshness calls
\* it: raise, answer without text, answer a text that is not JSON, a JSON
\* array, an object that validates, an object without "confidence", an
\* object whose freshness_score is a string.
FreshnessResponses ==
    LET valid == [freshness_score |-> Num(92), health_status |-> Str("excellent"),
                  shelf_life_hours |-> Num(96), alert_generated |-> [bool |-> FALSE],
                  confidence |-> Num(90)]
        no_confidence == [freshness_score |-> Num(92),
                          health_status |-> Str("excellent"),
                          shelf_life_hours |-> Num(96),
                          alert_generated |-> [bool |-> FALSE]]
    IN  {[kind |-> "raised"], [kind |-> "no_text"],
         [kind |-> "text", parsed |-> [error |-> TRUE]],
         [kind |-> "text", parsed |-> [value |-> [array |-> TRUE]]],
         [kind |-> "text", parsed |-> [value |-> [object |-> valid]]],
         [kind |-> "text", parsed |-> [value |-> [object |-> no_confidence]]],
         [kind |-> "text",
          parsed |-> [value |-> [object |->
                         [valid EXCEPT !.freshness_score = Str("high")]]]]}

\* A caller imports freshness_agent and calls analyze_freshness(sensor_data).
\* The import fails, or the function reaches generate_content (line 117) and
\* waits there for the library call to end.
CallAnalyzeFreshness ==
    /\ agent_call = NoCall
    /\ \E sensor_data \in [crop_type : {"Tomatoes"},
                           crop_classification : {"fresh", "rotten"},
                           temperature : {4, 5, 20, 35, 36},
                           humidity : {60, 85, 86}],
          environment \in [library : BOOLEAN, api_key : BOOLEAN,
                           client_rejects_none : BOOLEAN] :
          agent_call' =
             [op |-> "analyze_freshness",
              input |-> sensor_data,
              environment |-> environment,
              at |-> IF FreshnessAgentImport(environment).raises
                     THEN "done" ELSE "generate_content",
              response |-> None,
              outcome |-> IF FreshnessAgentImport(environment).raises
                          THEN Raised(FreshnessAgentImport(environment).error)
                          ELSE None]
    /\ UNCHANGED <<OrchestratorVars, db, last_turn, in_flight>>

\* A caller calls get_ai_market_insight(crop_type, quantity_kg, options):
\* lines 450-455 return the rule-based insight when the library or the API
\* key is missing, else the function reaches generate_content (line 475).
CallGetAiMarketInsight ==
    /\ agent_call = NoCall
    /\ \E found \in {<< >>, <<ItemPune>>, <<ItemHaat, ItemMumbai>>},
          environment \in [library : BOOLEAN, api_key : BOOLEAN,
                           client_rejects_none : {FALSE}] :
          LET options == MarkBest(SortByNetProfit(
                            [i \in 1..Len(found) |->
                                MandiOptionOf(found[i], "Pune", 100, 80)]))
              called == environment.library /\ environment.api_key
          IN  agent_call' =
                 [op |-> "get_ai_market_insight",
                  input |-> options,
                  environment |-> environment,
                  at |-> IF called THEN "generate_content" ELSE "done",
                  response |-> None,
                  outcome |-> IF called THEN None
                              ELSE Returned(get_ai_market_insight(
                                               options, [kind |-> "unavailable"]))]
    /\ UNCHANGED <<OrchestratorVars, db, last_turn, in_flight>>

\* client.models.generate_content ends (it returns a response or raises) and
\* the waiting function runs to its return.  Without an API key the request
\* of analyze_freshness can only be refused.  Neither function sets a
\* timeout on the call or on the client, so nothing but this step ends the
\* wait.
GenerateContentEnds ==
    /\ agent_call.op \in {"analyze_freshness", "get_ai_market_insight"}
    /\ agent_call.at = "generate_content"
    /\ \E response \in
            (IF agent_call.op = "analyze_freshness" THEN FreshnessResponses
             ELSE {[kind |-> "raised"], [kind |-> "no_text"],
                   [kind |-> "text", text |-> "Sell at Pune APMC this week."]}) :
          /\ ~agent_call.environment.api_key => response.kind = "raised"
          /\ agent_call' =
                [agent_call EXCEPT
                    !.at = "done",
                    !.response = response,
                    !.outcome =
                       IF agent_call.op = "analyze_freshness"
                       THEN Returned(analyze_freshness(agent_call.input, response))
                       ELSE Returned(get_ai_market_insight(agent_call.input, response))]
    /\ UNCHANGED <<OrchestratorVars, db, last_turn, in_flight>>

\* WorkflowOrchestrator.get_workflow_history(limit), lines 446-448:
\* self.workflow_history[-limit:].  A slice from -limit starts limit records
\* before the end (at the first record when there are fewer); -0 is 0, the
\* first record; a negative limit gives a positive start.
get_workflow_history(history, limit) ==
    LET n == Len(history)
        start == IF limit > 0 THEN Max(0, n - limit) ELSE Min(n, 0 - limit)
    IN  SubSeq(history, start + 1, n)

\* Histories of up to three past invocations, numbered in completion order
WorkflowHistories ==
    UNION {{[i \in 1..n |-> [workflow_id |-> i, status |-> statuses[i]]] :
               statuses \in [1..n -> {"completed", "error"}]} : n \in 0..3}

\* GET /workflow-history?limit=... (routers/workflow_assessment.py, lines
\* 88-99): the limit is any integer of the query string.
CallGetWorkflowHistory ==
    /\ agent_call = NoCall
    /\ \E history \in WorkflowHistories, limit \in 0..4 :
          agent_call' = [op |-> "get_workflow_history",
                         history |-> history,
                         limit |-> limit,
                         result |-> get_workflow_history(history, limit)]
    /\ UNCHANGED <<OrchestratorVars, db, last_turn, in_flight>>

\* assign_driver_for_transport called on collections of every shape: up to
\* three distinct drivers in any order, no farmer, a farmer named "Unknown"
\* or a farmer with a name and a sale in the history; quantities below,
\* between and above the capacities.
BookableDrivers ==
    {[id |-> "D001", name |-> "Suresh", vehicleType |-> "Eicher Pro 1049",
      status |-> "Available"],
     [id |-> "D002", name |-> "Mahesh", vehicleType |-> "Tata 709",
      status |-> "Available"],
     [id |-> "D003", name |-> "Ganesh", status |-> "Available"],
     [id |-> "D004", name |-> "Dinesh", vehicleType |-> "Tata 407",
      status |-> "Busy"]}

DriverCollections ==
    UNION {{drivers \in [1..n -> BookableDrivers] :
               \A i, j \in 1..n : i # j => drivers[i] # drivers[j]} : n \in 0..3}

DirectFarmerId == "F_9876543210"

FarmerCollections ==
    {<< >>,
     <<[id |-> DirectFarmerId, name |-> Str("Unknown"), phone |-> ConversationPhone,
        village |-> "Pune, Maharashtra", status |-> "Connected",
        totalEarnings |-> 0, history |-> << >>]>>,
     <<[id |-> DirectFarmerId, name |-> Str("Ramesh Patil"),
        phone |-> ConversationPhone, village |-> "Nashik, Maharashtra",
        status |-> "Connected", totalEarnings |-> 209500,
        history |-> <<[booking_id |-> 1, crop |-> "Tomatoes", quantity_kg |-> 100,
                       mandi |-> "Pune APMC", expected_profit |-> 209500,
                       driver_id |-> "D004", status |-> "assigned"]>>]>>}

DirectLoads == {500, 3000, 6000}

CallAssignDriverForTransport ==
    /\ agent_call = NoCall
    /\ \E drivers \in DriverCollections, farmers \in FarmerCollections,
          quantity_kg \in DirectLoads :
          LET before == [farmers |-> farmers, drivers |-> drivers,
                         bookings |-> << >>,
                         conversation_states |-> EmptyDict]
          IN  agent_call' =
                 [op |-> "assign_driver_for_transport",
                  db |-> before,
                  quantity_kg |-> quantity_kg,
                  result |->
                     assign_driver_for_transport(before, DirectFarmerId,
                        ConversationPhone, "Ramesh", "Mumbai Wholesale",
                        "Tomatoes", quantity_kg, 100000)]
    /\ UNCHANGED <<OrchestratorVars, db, last_turn, in_flight>>

\* ------------------------------------------------------------------------
\* POST /webhook: whatsapp_webhook
\* (backend/app/routers/whatsapp_webhook.py, lines 425-583) and
\* send_whatsapp_message (backend/app/services/twilio_client.py, lines 19-66)
\*
\* What the handlers answer is left to the dialogue; here a handler gives
\* its reply or raises.  fails says what goes wrong while the message is
\* handled: get_database, incoming_log, market, fallback, send,
\* outgoing_log.  weather says that the text holds a weather keyword; the
\* weather helpers catch their own exceptions (lines 34-115 and 120-135).
\* ------------------------------------------------------------------------

WebhookFailures ==
    [get_database : BOOLEAN, incoming_log : BOOLEAN, market : BOOLEAN,
     fallback : BOOLEAN, send : BOOLEAN, outgoing_log : BOOLEAN]

ErrorMessage == "Sorry, something went wrong"

\* send_whatsapp_message(to_number, body_text): the message SID, or None
\* when the client is missing or the API call raises (every exception of the
\* call is caught)
send_whatsapp_message(body_text, fails) ==
    IF fails.send THEN None ELSE Str("SID")

\* Mutant of whatsapp_webhook: the except block of line 566 sends nothing.
WebhookWithoutErrorMessage(weather, fails) ==
    LET db_available == ~fails.get_database /\ ~fails.incoming_log
        handlers == IF weather THEN << >>
                    ELSE IF ~db_available THEN <<"fallback">>
                    ELSE IF fails.market THEN <<"market", "fallback">>
                    ELSE <<"market">>
        raised == handlers # << >> /\ handlers[Len(handlers)] = "fallback"
                     /\ fails.fallback
        response_message == IF weather THEN "weather reply"
                            ELSE IF handlers[Len(handlers)] = "fallback"
                            THEN "fallback reply"
                            ELSE "market reply"
        sent == IF raised THEN << >> ELSE <<response_message>>
    IN  [handlers |-> handlers,
         sent |-> sent,
         sids |-> [i \in 1..Len(sent) |-> send_whatsapp_message(sent[i], fails)],
         logged |-> (IF ~fails.get_database /\ ~fails.incoming_log
                     THEN <<"incoming">> ELSE << >>)
                    \o (IF db_available /\ ~raised /\ ~fails.outgoing_log
                        THEN <<"outgoing">> ELSE << >>),
         response |-> ""]

\* whatsapp_webhook(From, Body, ProfileName, NumMedia): the handlers called,
\* the bodies passed to send_whatsapp_message, what it returned, the log
\* entries written and the content of the response
whatsapp_webhook(weather, fails) ==
    LET \* lines 462-488
        db_available == ~fails.get_database /\ ~fails.incoming_log
        \* lines 500-540
        handlers == IF weather THEN << >>
                    ELSE IF ~db_available THEN <<"fallback">>
                    ELSE IF fails.market THEN <<"market", "fallback">>
                    ELSE <<"market">>
        \* the fallback is outside the inner try: its exception reaches
        \* line 566
        raised == handlers # << >> /\ handlers[Len(handlers)] = "fallback"
                     /\ fails.fallback
        response_message == IF weather THEN "weather reply"
                            ELSE IF handlers[Len(handlers)] = "fallback"
                            THEN "fallback reply"
                            ELSE "market reply"
        \* line 546, or line 576 in the except block
        sent == IF raised THEN <<ErrorMessage>> ELSE <<response_message>>
    IN  [handlers |-> handlers,
         sent |-> sent,
         sids |-> [i \in 1..Len(sent) |-> send_whatsapp_message(sent[i], fails)],
         logged |-> (IF ~fails.get_database /\ ~fails.incoming_log
                     THEN <<"incoming">> ELSE << >>)
                    \o (IF db_available /\ ~raised /\ ~fails.outgoing_log
                        THEN <<"outgoing">> ELSE << >>),
         response |-> ""]

CallWhatsappWebhook ==
    /\ agent_call = NoCall
    /\ \E weather \in BOOLEAN, fails \in WebhookFailures :
          agent_call' = [op |-> "whatsapp_webhook",
                         weather |-> weather,
                         fails |-> fails,
                         result |-> whatsapp_webhook(weather, fails)]
    /\ UNCHANGED <<OrchestratorVars, db, last_turn, in_flight>>

AgentNext ==
    \/ CallRecommendDeliveryMode
    \/ CallOptimizeDeliveryRoute
    \/ CallAnalyzeMarketForCrop
    \/ CallAnalyzeFreshness
    \/ CallGetAiMarketInsight
    \/ GenerateContentEnds
    \/ CallGetWeatherForecast
    \/ CallExecuteFreshnessStage
    \/ CallAssignDriverForTransport
    \/ CallGetWorkflowHistory
    \/ CallWhatsappWebhook

AgentSpec == Init /\ [][AgentNext]_vars

\* The callers' own steps are taken when they can be; the advisory service
\* and the library call that waits for it owe nothing.
AgentFairSpec ==
    AgentSpec /\ WF_vars(CallAnalyzeFreshness \/ CallGetAiMarketInsight)

\* ------------------------------------------------------------------------
\* The selling dialogue as a state machine: one step per message of the one
\* farmer, handled whole (handle_market_conversation and, at the
\* confirmation, assign_driver_for_transport).
\* ------------------------------------------------------------------------

ProfileNames == {None, Str("Ramesh")}

\* Texts a farmer sends at a step of the dialogue, besides "sell"
MessagesAt(step) ==
    {"sell"} \cup
    CASE step = "none" -> {"maybe", "YES"}
      [] step = "awaiting_name" -> {"Ramesh Patil"}
      [] step = "awaiting_village" -> {"Pune", "Nashik"}
      [] step = "awaiting_crop" -> {"tomato", "7"}
      [] step = "awaiting_custom_crop" -> {"Ginger"}
      [] step = "awaiting_quantity" -> {"100 kg", "-5", "20000", "0", "maybe", "YES"}
      [] step = "awaiting_mandi_choice" ->
            {"1", "2", "0", "Mumbai Wholesale", "Nashik Mandi", "maybe", "YES"}
      [] step = "awaiting_confirmation" -> {"YES", "no", "nahi", "maybe", "1"}
      [] OTHER -> {}

CurrentStep ==
    IF IsNone(get_conversation_state(db, ConversationPhone)) THEN "none"
    ELSE get_conversation_state(db, ConversationPhone).current_step

\* What the market_items lookup answers at the quantity step
FoundAt(step) ==
    IF step = "awaiting_quantity" THEN {<<ItemPune, ItemMumbai>>, <<ItemNashik>>}
    ELSE {<< >>}

\* The farmer sends a message and the handler answers it.  The profile name
\* is read only when a conversation starts.
HandleMessage ==
    \E message \in MessagesAt(CurrentStep), found \in FoundAt(CurrentStep) :
    \E profile_name \in (IF ContainsStartKeyword(MessageLower(message))
                            \/ CurrentStep = "none"
                         THEN ProfileNames ELSE {None}) :
       LET turn == handle_market_conversation(db, ConversationPhone, message,
                                              profile_name, found)
       IN  /\ db' = turn.db
           /\ last_turn' = [message |-> message,
                            step |-> CurrentStep,
                            reply |-> turn.reply,
                            assign_called |-> turn.assign_called]
           /\ UNCHANGED <<OrchestratorVars, agent_call, in_flight>>

\* POST /book (backend/app/routers/market.py, lines 93-118): book_transport
\* passes five positional arguments to assign_driver_for_transport, which
\* requires seven, so the call raises TypeError before anything is read or
\* written.
BookTransport ==
    /\ db' = db
    /\ last_turn' = [message |-> "POST /book", step |-> CurrentStep,
                     reply |-> "TypeError", assign_called |-> FALSE]
    /\ UNCHANGED <<OrchestratorVars, agent_call, in_flight>>

DialogueNext ==
    \/ HandleMessage
    \/ BookTransport

DialogueSpec == Init /\ [][DialogueNext]_vars

\* ------------------------------------------------------------------------
\* Concurrent calls of assign_driver_for_transport
\* (backend/app/agents/market_agent.py, lines 510-680)
\*
\* The webhook is an async endpoint: a second confirmation is handled while
\* the first call is suspended at one of its awaits.  Between two awaits a
\* call runs alone.  A call is suspended at: find_farmer (line 542),
\* write_farmer (line 556 or 561), find_drivers (line 568), update_driver
\* (line 633), update_farmer (line 660), insert_booking (line 677); an
\* action resumes it there and runs it to its next await.  The calls are
\* made in different seconds, so that the i-th call has the booking id i
\* (two calls of the same second would share their id).
\* ------------------------------------------------------------------------

MaxCalls == 2

ConcurrentFarmers == {"F_9876543210", "F_9123456789"}

ConcurrentLoads == {500, 3000}

\* farmer_phone, farmer_name, destination_mandi, crop_type and
\* expected_profit of every concurrent call
ConcurrentCall ==
    [farmer_phone |-> ConversationPhone, farmer_name |-> "Ramesh",
     destination_mandi |-> "Mumbai Wholesale", crop_type |-> "Tomatoes",
     expected_profit |-> 100000]

Suspended(i, at) == i \in 1..Len(in_flight) /\ in_flight[i].at = at

\* A confirmation calls assign_driver_for_transport, which runs to line 542
CallAssignDriver ==
    /\ Len(in_flight) < MaxCalls
    /\ \E farmer_id \in ConcurrentFarmers, quantity_kg \in ConcurrentLoads :
          in_flight' = Append(in_flight,
                          [at |-> "find_farmer", farmer_id |-> farmer_id,
                           quantity_kg |-> quantity_kg, created |-> FALSE,
                           farmer |-> None, driver |-> None, assignment |-> None])
    /\ UNCHANGED <<OrchestratorVars, agent_call, db, last_turn>>

\* Line 542 answers; lines 543-565 make the farmer dict of the call, which
\* is written next when it is new or renamed
FindFarmer(i) ==
    /\ Suspended(i, "find_farmer")
    /\ LET found == FindOne(db.farmers, "id", in_flight[i].farmer_id)
           before == IF IsNone(found) THEN << >> ELSE <<found>>
           after == FarmersAfterLookup(before, in_flight[i].farmer_id,
                                       ConcurrentCall.farmer_phone,
                                       ConcurrentCall.farmer_name)
       IN  in_flight' = [in_flight EXCEPT
                           ![i].farmer = after[1],
                           ![i].created = IsNone(found),
                           ![i].at = IF after = before THEN "find_drivers"
                                     ELSE "write_farmer"]
    /\ UNCHANGED <<OrchestratorVars, agent_call, db, last_turn>>

\* Line 556, insert_one(farmer), or line 561, update_one with the name
WriteFarmer(i) ==
    /\ Suspended(i, "write_farmer")
    /\ db' = [db EXCEPT !.farmers =
                IF in_flight[i].created THEN Append(@, in_flight[i].farmer)
                ELSE UpdateOne(@, "id", in_flight[i].farmer_id,
                               [name |-> Str(ConcurrentCall.farmer_name)])]
    /\ in_flight' = [in_flight EXCEPT ![i].at = "find_drivers"]
    /\ UNCHANGED <<OrchestratorVars, agent_call, last_turn>>

\* Line 568 answers with the drivers that are Available now; lines 570-631
\* return None or select the driver and build the assignment
FindDrivers(i) ==
    /\ Suspended(i, "find_drivers")
    /\ LET available_drivers == AvailableDrivers(db.drivers)
           driver == SelectDriver(available_drivers, in_flight[i].quantity_kg)
       IN  in_flight' =
              IF available_drivers = << >>
              THEN [in_flight EXCEPT ![i].at = "returned"]
              ELSE [in_flight EXCEPT
                      ![i].at = "update_driver",
                      ![i].driver = driver,
                      ![i].assignment =
                         NewAssignment(in_flight[i].farmer, driver, i,
                                       in_flight[i].farmer_id,
                                       ConcurrentCall.farmer_phone,
                                       ConcurrentCall.destination_mandi,
                                       ConcurrentCall.crop_type,
                                       in_flight[i].quantity_kg)]
    /\ UNCHANGED <<OrchestratorVars, agent_call, db, last_turn>>

\* Line 633: the selected driver is set Busy, whatever its status is now
UpdateDriver(i) ==
    /\ Suspended(i, "update_driver")
    /\ db' = [db EXCEPT !.drivers =
                DriversAfterAssignment(@, in_flight[i].assignment,
                                       in_flight[i].driver)]
    /\ in_flight' = [in_flight EXCEPT ![i].at = "update_farmer"]
    /\ UNCHANGED <<OrchestratorVars, agent_call, last_turn>>

\* Line 660
UpdateFarmer(i) ==
    /\ Suspended(i, "update_farmer")
    /\ db' = [db EXCEPT !.farmers =
                FarmersAfterAssignment(@, in_flight[i].assignment,
                                       in_flight[i].driver,
                                       ConcurrentCall.expected_profit)]
    /\ in_flight' = [in_flight EXCEPT ![i].at = "insert_booking"]
    /\ UNCHANGED <<OrchestratorVars, agent_call, last_turn>>

\* Line 677, and the assignment is returned
InsertBooking(i) ==
    /\ Suspended(i, "insert_booking")
    /\ db' = [db EXCEPT !.bookings =
                BookingsAfterAssignment(@, in_flight[i].assignment,
                                        ConcurrentCall.expected_profit,
                                        ConcurrentCall.farmer_name)]
    /\ in_flight' = [in_flight EXCEPT ![i].at = "returned"]
    /\ UNCHANGED <<OrchestratorVars, agent_call, last_turn>>

ConcurrentNext ==
    \/ CallAssignDriver
    \/ \E i \in 1..Len(in_flight) : FindFarmer(i)
    \/ \E i \in 1..Len(in_flight) : WriteFarmer(i)
    \/ \E i \in 1..Len(in_flight) : FindDrivers(i)
    \/ \E i \in 1..Len(in_flight) : UpdateDriver(i)
    \/ \E i \in 1..Len(in_flight) : UpdateFarmer(i)
    \/ \E i \in 1..Len(in_flight) : InsertBooking(i)

ConcurrentSpec == Init /\ [][ConcurrentNext]_vars

\* ------------------------------------------------------------------------
\* Bookings and their status: assign_driver_for_transport and
\* PATCH /bookings/{booking_id}/status
\* (backend/app/routers/market.py, lines 155-187)
\*
\* The calls run one after the other here.  update_booking_status starts
\* with "db = await get_database()" (line 161) while get_database
\* (backend/app/core/database.py, line 18) is a plain function: whether
\* awaiting what it returns raises TypeError depends on the database object
\* of the driver, which is not part of the repository, so both outcomes are
\* kept.
\* ------------------------------------------------------------------------

MaxBookings == 2

BookingStatuses == {"assigned", "confirmed", "in_transit", "delivered", "cancelled"}

\* The statuses a caller sends: the valid ones and one that is not
StatusInputs == BookingStatuses \cup {"done"}

BookingLoads == {500, 3000}

\* update_booking_status(booking_id, status) past line 161: the collections
\* afterwards and the answer
update_booking_status(d, booking_id, status) ==
    LET bookings == UpdateOne(d.bookings, "booking_id", booking_id,
                              [status |-> status])
        booking == FindOne(bookings, "booking_id", booking_id)
    IN  IF status \notin BookingStatuses
        THEN [db |-> d, result |-> "HTTP 400"]
        ELSE IF IsNone(FindOne(d.bookings, "booking_id", booking_id))
        THEN [db |-> d, result |-> "HTTP 404"]
        ELSE IF status \in {"delivered", "cancelled"}
        THEN [db |-> [d EXCEPT
                        !.bookings = bookings,
                        !.drivers = UpdateOne(@, "id", booking.driver_id,
                                       [status |-> "Available",
                                        currentLoad |-> Str("Empty")])],
              result |-> "success"]
        ELSE [db |-> [d EXCEPT !.bookings = bookings], result |-> "success"]

\* A farmer confirms and assign_driver_for_transport runs to its end
AssignDriver ==
    /\ Len(db.bookings) < MaxBookings
    /\ \E quantity_kg \in BookingLoads :
          LET call == assign_driver_for_transport(db, DirectFarmerId,
                         ConversationPhone, "Ramesh", "Mumbai Wholesale",
                         "Tomatoes", quantity_kg, 100000)
          IN  /\ db' = call.db
              /\ agent_call' = [op |-> "assign_driver_for_transport",
                                result |-> IF IsNone(call.assignment) THEN "None"
                                           ELSE "assignment"]
    /\ UNCHANGED <<OrchestratorVars, last_turn, in_flight>>

\* PATCH /bookings/{booking_id}/status?status=...
UpdateBookingStatus ==
    \E booking_id \in 1..MaxBookings, status \in StatusInputs :
       LET call == update_booking_status(db, booking_id, status)
       IN  /\ \/ /\ db' = call.db
                 /\ agent_call' = [op |-> "update_booking_status",
                                   result |-> call.result]
              \/ /\ db' = db
                 /\ agent_call' = [op |-> "update_booking_status",
                                   result |-> "TypeError"]
           /\ UNCHANGED <<OrchestratorVars, last_turn, in_flight>>

BookingNext ==
    \/ AssignDriver
    \/ UpdateBookingStatus

BookingSpec == Init /\ [][BookingNext]_vars

\* ------------------------------------------------------------------------
\* Properties of execute_workflow
\* ------------------------------------------------------------------------

HasReturned == pc = "returned"

\* The stage's wrapper returned an error record (its agent call raised).
StageFailed(name) ==
    /\ pc \notin {"idle"}
    /\ name \in DOMAIN results.stages
    /\ results.stages[name]["status"] = "error"

StageSucceeded(name) ==
    /\ pc \notin {"idle"}
    /\ name \in DOMAIN results.stages
    /\ results.stages[name]["status"] = "success"

HasSynthesis == HasReturned /\ "synthesis" \in DOMAIN results

\* C1: if the Freshness stage throws, none of the Market, Logistics and
\* Weather stages is invoked in that invocation, and the invocation returns
\* with status "error".
C1_FreshnessFailureShortCircuits ==
    StageFailed("freshness") =>
        /\ \A i \in 1..Len(invoked) : invoked[i] \notin {"market", "logistics", "weather"}
        /\ HasReturned => results.status = "error"

\* C2: only a Freshness-stage failure escalates: whenever an invocation
\* returns with status "error", its Freshness stage failed.
C2_OnlyFreshnessFailureEscalates ==
    (HasReturned /\ results.status = "error") => StageFailed("freshness")

\* C3: when the Market, Logistics or Weather stage raises, the stage's entry
\* is an error record with a message, all four stages have run, a synthesis
\* is produced and the status is "completed"; and a completed invocation has
\* an entry for each of the four stages.
C3_StageExceptionIsIsolated ==
    /\ (HasReturned /\ \E s \in {"market", "logistics", "weather"} : StageFailed(s)) =>
          /\ \A s \in {"market", "logistics", "weather"} :
                StageFailed(s) => "error" \in DOMAIN results.stages[s]
          /\ \A s \in StageNames : \E i \in 1..Len(invoked) : invoked[i] = s
          /\ "synthesis" \in DOMAIN results
          /\ results.status = "completed"
    /\ (HasReturned /\ results.status = "completed") =>
          DOMAIN results.stages = StageNames

\* The base score and the delivery mode synthesis works from, read off the
\* recorded stage results.
RecordedBaseScore ==
    IF StageSucceeded("freshness")
    THEN DictGet(results.stages["freshness"]["data"], "freshness_score", 50000)
    ELSE 50000

RecordedDeliveryMode ==
    IF StageSucceeded("logistics")
    THEN results.stages["logistics"]["delivery_recommendation"]["recommended_delivery_mode"]
    ELSE "standard"

\* 5 / 3 / 0 for cold_chain / refrigerated / anything else, in thousandths
BonusOfMode(mode) ==
    IF mode = "cold_chain" THEN 5 * 1000
    ELSE IF mode = "refrigerated" THEN 3 * 1000
    ELSE 0

Clamp(x) == IF x < 0 THEN 0 ELSE IF x > 100 * 1000 THEN 100 * 1000 ELSE x

\* C4: if the Weather stage fails, the weather loss contributed is zero:
\* final_score = base_freshness_score + mode_preservation_bonus (clamped to
\* [0,100], reported to two decimals) and the reported estimated loss is 0.
C4_FailedWeatherContributesZero ==
    (HasSynthesis /\ StageFailed("weather")) =>
        /\ results["synthesis"]["weather_impact"]["estimated_loss"] = 0
        /\ results["synthesis"]["final_freshness_score"] =
              Round2(Clamp(RecordedBaseScore + BonusOfMode(RecordedDeliveryMode)))

HasPriceLine(synthesis) ==
    \E i \in 1..Len(synthesis["comprehensive_recommendations"]) :
        synthesis["comprehensive_recommendations"][i]["kind"] = "price"

HasSetPriceAction(synthesis) ==
    \E i \in 1..Len(synthesis["action_items"]) :
        synthesis["action_items"][i]["action"] = "Set market price"

\* C5: a failed Logistics stage contributes a preservation bonus of 0, a
\* failed Market stage contributes no price line and no "Set market price"
\* action item, and in both cases the invocation returns a synthesis with
\* status "completed".
C5_FailedStageContributesNothing ==
    /\ (HasReturned /\ StageFailed("logistics")) =>
          /\ results.status = "completed"
          /\ "synthesis" \in DOMAIN results
          /\ results["synthesis"]["logistics_impact"]["preservation_bonus"] = 0
    /\ (HasReturned /\ StageFailed("market")) =>
          /\ results.status = "completed"
          /\ "synthesis" \in DOMAIN results
          /\ ~HasPriceLine(results["synthesis"])
          /\ ~HasSetPriceAction(results["synthesis"])

\* What the Weather stage reported, when it succeeded and reported both the
\* degradation rate (a number) and the transport duration.
WeatherReported ==
    /\ StageSucceeded("weather")
    /\ "freshness_degradation_rate" \in DOMAIN results.stages["weather"]["data"]
    /\ IsNum(results.stages["weather"]["data"]["freshness_degradation_rate"])
    /\ "transportation_duration_hours" \in DOMAIN results.stages["weather"]["data"]

ReportedRate == results.stages["weather"]["data"]["freshness_degradation_rate"].num

ReportedHours == results.stages["weather"]["data"]["transportation_duration_hours"]

\* C6: for every combination of stage results the synthesis
\* final_freshness_score lies in [0,100] (reported in hundredths).
C6_FinalScoreWithinBounds ==
    HasSynthesis =>
        /\ results["synthesis"]["final_freshness_score"] >= 0
        /\ results["synthesis"]["final_freshness_score"] <= 100 * 100

\* C6 witness: a synthesis whose weather loss exceeds base score plus bonus,
\* so that the unclamped value is negative.
C6_Witness ==
    /\ HasSynthesis
    /\ WeatherReported
    /\ RecordedBaseScore + BonusOfMode(RecordedDeliveryMode)
          < (ReportedRate * ReportedHours) \div 100
    /\ results["synthesis"]["final_freshness_score"] = 0

\* C7: final = clamp(base_freshness_score - weather_degradation_rate *
\* transport_hours + mode_preservation_bonus, 0, 100), the bonus being 5 / 3 /
\* 0 for cold_chain / refrigerated / any other mode and transport_hours the
\* duration the Weather stage reported; the result is reported to two
\* decimals, and the bonus is reported as applied.
C7_FinalScoreFormula ==
    (HasSynthesis /\ WeatherReported) =>
        /\ results["synthesis"]["final_freshness_score"] =
              Round2(Clamp(RecordedBaseScore
                           - (ReportedRate * ReportedHours) \div 100
                           + BonusOfMode(RecordedDeliveryMode)))
        /\ results["synthesis"]["logistics_impact"]["preservation_bonus"] =
              BonusOfMode(RecordedDeliveryMode)

\* C7 witness: a synthesis for a refrigerated delivery with a reported
\* weather loss, whose final score is strictly inside (0, 100).
C7_Witness ==
    /\ HasSynthesis
    /\ WeatherReported
    /\ ReportedRate * ReportedHours > 0
    /\ RecordedDeliveryMode = "refrigerated"
    /\ results["synthesis"]["final_freshness_score"] > 0
    /\ results["synthesis"]["final_freshness_score"] < 100 * 100

\* The tier of a reported score (hundredths): >=80 EXCELLENT, >=60 GOOD,
\* >=40 FAIR, >=20 POOR, else CRITICAL.
TierOfReported(score) ==
    IF score >= 80 * 100 THEN "EXCELLENT"
    ELSE IF score >= 60 * 100 THEN "GOOD"
    ELSE IF score >= 40 * 100 THEN "FAIR"
    ELSE IF score >= 20 * 100 THEN "POOR"
    ELSE "CRITICAL"

\* C8: the reported final_freshness_level is the tier of the reported
\* final_freshness_score.
C8_LevelMatchesReportedScore ==
    HasSynthesis =>
        results["synthesis"]["final_freshness_level"] =
            TierOfReported(results["synthesis"]["final_freshness_score"])

StageOrder == <<"freshness", "market", "logistics", "weather", "synthesis">>

IsPrefix(p, q) == Len(p) <= Len(q) /\ \A i \in 1..Len(p) : p[i] = q[i]

AllStagesReturned ==
    \A s \in StageNames :
        /\ s \in DOMAIN results.stages
        /\ results.stages[s]["status"] \in {"success", "error"}

\* C9: within one invocation the Freshness stage is invoked before any other
\* stage, each stage is invoked at most once, and synthesis starts only
\* after all four stages have returned a success or error result.
C9_StageOrder ==
    /\ IsPrefix(invoked, StageOrder)
    /\ pc = "synthesis" => AllStagesReturned
    /\ (\E i \in 1..Len(invoked) : invoked[i] = "synthesis") => AllStagesReturned

\* C9 witness: an invocation that ran all four stages, one of them failing,
\* and then synthesis.
C9_Witness ==
    /\ HasReturned
    /\ invoked = StageOrder
    /\ StageFailed("freshness")
    /\ StageFailed("weather")

StatusOf(r) == IF IsNone(r) THEN "none" ELSE r.status

\* C10 (safety): execute_workflow is always at one of its steps or has
\* returned (it never ends by raising); the status is in_progress until it returns
\* and exactly one of completed / error once it has; completed implies that
\* a synthesis is present; the status only moves in_progress -> completed or
\* in_progress -> error (or is reset by the next invocation).
C10_StatusInvariant ==
    /\ pc \in {"idle", "freshness", "market", "logistics", "weather", "synthesis",
              "returned"}
    /\ pc \in {"freshness", "market", "logistics", "weather", "synthesis"} =>
          results.status = "in_progress"
    /\ HasReturned =>
          /\ results.status \in {"completed", "error"}
          /\ results.status = "completed" => "synthesis" \in DOMAIN results
          /\ results.status = "error" => "error" \in DOMAIN results

C10_StatusStep ==
    \/ StatusOf(results') = StatusOf(results)
    \/ StatusOf(results') = "in_progress" /\ pc \in {"idle", "returned"}
    \/ StatusOf(results) = "in_progress" /\ StatusOf(results') \in {"completed", "error"}

\* C10: every invocation of execute_workflow follows in_progress ->
\* completed | error, never raises to its caller and always returns with
\* status completed or error, completed implying a synthesis.
C10_AlwaysReturns ==
    /\ [](C10_StatusInvariant)
    /\ [][C10_StatusStep]_vars
    /\ [](pc = "freshness" => <>(pc = "returned"))

\* C10 witness: a returned invocation with status error, and one with
\* status completed before it.
C10_Witness ==
    /\ HasReturned
    /\ results.status = "error"
    /\ Len(workflow_history) = 2
    /\ workflow_history[1].status = "completed"

\* ------------------------------------------------------------------------
\* Properties of the synthesis recommendation list
\* ------------------------------------------------------------------------

\* The texts recommend_delivery_mode writes into feasibility_notes
FeasibilityNoteTexts == {NoteExceedsWindow, NoteWithinSixHours}

\* The position (1..7) a recommendation line belongs to
LineRank(line) ==
    CASE line["kind"] = "freshness_loss" -> 1
      [] line["kind"] = "status" -> 2
      [] line["kind"] = "price" -> 3
      [] line["kind"] = "delivery" -> 4
      [] line["kind"] = "note" /\ line["text"] \in FeasibilityNoteTexts -> 5
      [] line["kind"] = "note" /\ line["text"] \notin FeasibilityNoteTexts -> 6
      [] line["kind"] \in {"urgent", "high_priority"} -> 7

LinesOfRank(lines, rank) == SelectSeq(lines, LAMBDA line : LineRank(line) = rank)

TextsOf(lines) == [i \in 1..Len(lines) |-> lines[i]["text"]]

\* The feasibility notes of a Logistics stage that reported the delivery
\* infeasible, << >> otherwise
RecordedInfeasibilityNotes ==
    IF /\ StageSucceeded("logistics")
       /\ ~results.stages["logistics"]["delivery_recommendation"]["feasible"]
    THEN results.stages["logistics"]["delivery_recommendation"]["feasibility_notes"]
    ELSE << >>

\* The recommendations the Weather stage returned, << >> if it returned none
RecordedWeatherRecommendations ==
    IF /\ StageSucceeded("weather")
       /\ "recommendations" \in DOMAIN results.stages["weather"]["data"]
    THEN results.stages["weather"]["data"]["recommendations"]
    ELSE << >>

C12_NoSharedStateMutated == [][workflow_history' = workflow_history]_vars

\* ------------------------------------------------------------------------
\* Independence of the Market, Logistics and Weather stages
\* ------------------------------------------------------------------------

\* What the Market stage can return for the invocation's arguments and a
\* Freshness result, over the answers of its own collaborator alone
MarketResultsFor(freshness_result) ==
    {_execute_market_stage(crop_data, freshness_result, market_params,
                           fetch_outcome, price_outcome) :
        fetch_outcome \in FetchMarketDataOutcomes,
        price_outcome \in DetermineBestPriceOutcomes}

LogisticsResultsFor(freshness_result) ==
    {_execute_logistics_stage(crop_data, freshness_result, logistics_params, db_outcome) :
        db_outcome \in FindDriversOutcomes}

WeatherResultsFor ==
    {_execute_weather_stage(crop_data, logistics_params, outcome) :
        outcome \in AssessWeatherOutcomes(TransportDuration(logistics_params))}

C13_OwnInputsOnly ==
    pc \in {"market", "logistics", "weather", "synthesis", "returned"} =>
        /\ "market" \in DOMAIN results.stages =>
              results.stages["market"] \in MarketResultsFor(results.stages["freshness"])
        /\ "logistics" \in DOMAIN results.stages =>
              results.stages["logistics"] \in LogisticsResultsFor(results.stages["freshness"])
        /\ "weather" \in DOMAIN results.stages =>
              results.stages["weather"] \in WeatherResultsFor

C13_StageResultKept ==
    pc \in {"market", "logistics", "weather", "synthesis"} =>
        \A s \in DOMAIN results.stages :
            /\ s \in DOMAIN results'.stages
            /\ results'.stages[s] = results.stages[s]

\* C13: the Market, Logistics and Weather stages are mutually independent:
\* the result of each is one that its wrapper computes from the invocation's
\* arguments, the Freshness result and the answer of the stage's own
\* collaborator, whatever the other two stages returned and whether they
\* succeeded or failed, and no later step of the invocation changes it.
C13_StagesIndependent == [](C13_OwnInputsOnly) /\ [][C13_StageResultKept]_vars

\* C13 witness: all three stages have returned, the Logistics stage with a
\* success between a failed Market stage and a failed Weather stage.
C13_Witness ==
    /\ pc = "synthesis"
    /\ StageSucceeded("freshness")
    /\ StageFailed("market")
    /\ StageSucceeded("logistics")
    /\ StageFailed("weather")

\* ------------------------------------------------------------------------
\* Properties of LogisticsAgent
\* ------------------------------------------------------------------------

CalledRecommendDeliveryMode == agent_call.op = "recommend_delivery_mode"

\* C14: recommend_delivery_mode maps the level to (mode, urgency): POOR or
\* CRITICAL -> (cold_chain, IMMEDIATE), FAIR -> (refrigerated, HIGH), GOOD ->
\* (refrigerated, NORMAL), EXCELLENT -> (standard, NORMAL); the mode returned
\* is always one of cold_chain, refrigerated, standard.
C14_LevelDeterminesMode ==
    CalledRecommendDeliveryMode =>
        LET level == agent_call.freshness_level
            mode == agent_call.result["recommended_delivery_mode"]
            urgency == agent_call.result["urgency"]
        IN  /\ level \in {"POOR", "CRITICAL"} => mode = "cold_chain" /\ urgency = "IMMEDIATE"
            /\ level = "FAIR" => mode = "refrigerated" /\ urgency = "HIGH"
            /\ level = "GOOD" => mode = "refrigerated" /\ urgency = "NORMAL"
            /\ level = "EXCELLENT" => mode = "standard" /\ urgency = "NORMAL"
            /\ mode \in {"cold_chain", "refrigerated", "standard"}

\* C14 witness: a call for GOOD produce, answered (refrigerated, NORMAL).
C14_Witness ==
    /\ CalledRecommendDeliveryMode
    /\ agent_call.freshness_level = "GOOD"
    /\ agent_call.result["recommended_delivery_mode"] = "refrigerated"
    /\ agent_call.result["urgency"] = "NORMAL"

\* Average speed of a delivery mode, km/h
SpeedOfMode(mode) ==
    IF mode = "cold_chain" THEN 60 ELSE IF mode = "refrigerated" THEN 70 ELSE 80

\* C15: recommend_delivery_mode returns (it does not raise) feasible = False
\* with a note exactly when estimated_hours = distance / speed exceeds the
\* caller's availability window, or freshness_score < 20 and estimated_hours
\* > 6; otherwise feasible = True with no notes.  500 km by cold_chain with a
\* 6-hour window is infeasible with the exceeded-window note.
C15_InfeasibleExactlyWhenLate ==
    CalledRecommendDeliveryMode =>
        LET result == agent_call.result
            speed == SpeedOfMode(result["recommended_delivery_mode"])
            window == agent_call.availability_window_hours
            exceeds_window ==
                ~IsNone(window) /\ agent_call.distance_km > window.num * speed
            critical ==
                /\ agent_call.freshness_score < 20 * 1000
                /\ agent_call.distance_km > 6 * speed
            notes == result["feasibility_notes"]
        IN  /\ result["status"] = "success"
            /\ result["feasible"] = ~(exceeds_window \/ critical)
            /\ result["feasible"] => notes = << >>
            /\ ~result["feasible"] => notes # << >>
            /\ exceeds_window => \E i \in 1..Len(notes) : notes[i] = NoteExceedsWindow
            /\ (/\ agent_call.distance_km = 500
                /\ result["recommended_delivery_mode"] = "cold_chain"
                /\ window = Num(6)) =>
                  /\ ~result["feasible"]
                  /\ \E i \in 1..Len(notes) : notes[i] = NoteExceedsWindow

CalledOptimizeDeliveryRoute ==
    /\ agent_call.op = "optimize_delivery_route"
    /\ agent_call.drivers # << >>
    /\ ~agent_call.outcome.raises

\* The index in the call's driver list of the driver with this _id
InputIndex(driver_id) ==
    CHOOSE j \in 1..Len(agent_call.drivers) : agent_call.drivers[j]["_id"] = driver_id

\* The suitability score of the j-th driver of the call, in thousandths
InputScore(j) == _score_driver(agent_call.drivers[j], agent_call.shipment_info)

PipelineRankedDrivers ==
    /\ StageSucceeded("freshness")
    /\ "freshness_level" \in DOMAIN results.stages["freshness"]["data"]
    /\ StageSucceeded("logistics")
    /\ "recommended_drivers" \in DOMAIN results.stages["logistics"]["route_optimization"]

\* The driver record the Logistics stage found under this _id
FoundDriver(driver_id) ==
    LET found == results.stages["logistics"]["available_drivers"]["drivers"]
    IN  found[CHOOSE j \in 1..Len(found) : found[j]["_id"] = driver_id]

\* C17: when the pipeline's Logistics stage ranks drivers, each driver's
\* score carries the vehicle-match bonus of the shipment's actual freshness
\* level: +20 for a cold_chain vehicle when the level is POOR or CRITICAL,
\* +15 for a cold_chain or refrigerated vehicle when it is GOOD or FAIR, +10
\* for a standard vehicle.
C17_VehicleBonusFollowsLevel ==
    PipelineRankedDrivers =>
        LET shipment ==
                [freshness_level |-> results.stages["freshness"]["data"]["freshness_level"],
                 quantity |-> DictGet(crop_data, "quantity", 0)]
            recommended ==
                results.stages["logistics"]["route_optimization"]["recommended_drivers"]
        IN  \A i \in 1..Len(recommended) :
               recommended[i]["suitability_score"] =
                   Round2(_score_driver(FoundDriver(recommended[i]["driver_id"]), shipment))

\* ------------------------------------------------------------------------
\* Properties of analyze_market_for_crop
\* ------------------------------------------------------------------------

CalledAnalyzeMarket == agent_call.op = "analyze_market_for_crop"

\* C18: the mandi options returned are sorted by net_profit in descending
\* order, and when the list is not empty exactly one option is marked
\* recommended: the first.
C18_SortedOneRecommended ==
    CalledAnalyzeMarket =>
        LET options == agent_call.result.mandi_options
        IN  /\ \A i \in 1..(Len(options) - 1) :
                  options[i].net_profit >= options[i + 1].net_profit
            /\ \A i \in 1..Len(options) : options[i].recommended <=> (i = 1)

\* C18 witness: three or more options, not found in sorted order, two of
\* them with the best net profit.
C18_Witness ==
    /\ CalledAnalyzeMarket
    /\ LET options == agent_call.result.mandi_options
       IN  /\ Len(options) >= 3
           /\ agent_call.found # << >>
           /\ DictGet(agent_call.found[1], "mandiName", "") # options[1].mandi_name
           /\ options[1].net_profit = options[2].net_profit
           /\ options[2].net_profit > options[3].net_profit
           /\ options[1].recommended

\* The permutations of 1..n
Orderings(n) == {f \in [1..n -> 1..n] : \A i, j \in 1..n : i # j => f[i] # f[j]}

MandiNames(options) == [i \in 1..Len(options) |-> options[i].mandi_name]

\* The call of agent_call repeated with the items found in another order
AnalysisOfReordered(ordering) ==
    analyze_market_for_crop(
        agent_call.farmer_found, agent_call.crop_type, agent_call.quantity_kg,
        "Pune, Maharashtra",
        [i \in 1..Len(agent_call.found) |-> agent_call.found[ordering[i]]],
        agent_call.all_items, agent_call.factors, agent_call.advisory)

\* C19: the ranking does not depend on the input order: for the same
\* candidate locations and quantity, every permutation of the input yields
\* the same recommended location and the same output order, also when two
\* locations have equal net_profit.
C19_RankingIgnoresInputOrder ==
    CalledAnalyzeMarket =>
        \A ordering \in Orderings(Len(agent_call.found)) :
            /\ AnalysisOfReordered(ordering).best_mandi = agent_call.result.best_mandi
            /\ MandiNames(AnalysisOfReordered(ordering).mandi_options)
                  = MandiNames(agent_call.result.mandi_options)

NetProfits(options) == {options[i].net_profit : i \in 1..Len(options)}

\* C20: with two or more options the reported profit gap is the largest
\* net_profit minus the smallest one (6,975 for net profits 10,475 and
\* 3,500); with exactly one option no gap is computed and the result says
\* that a single option is available.
C20_ProfitGap ==
    CalledAnalyzeMarket =>
        LET options == agent_call.result.mandi_options
            profits == NetProfits(options)
            largest == CHOOSE x \in profits : \A y \in profits : x >= y
            smallest == CHOOSE x \in profits : \A y \in profits : x <= y
        IN  /\ Len(options) >= 2 =>
                  agent_call.result.profit_gap =
                      [difference |-> RoundDiv(largest - smallest, 100)]
            /\ (Len(options) = 2 /\ profits = {10475 * 100, 3500 * 100}) =>
                  agent_call.result.profit_gap = [difference |-> 6975]
            /\ Len(options) = 1 =>
                  agent_call.result.profit_gap = [text |-> "Single option available"]

\* C20 witness: two options with net profits 10,475 and 3,500, found worst
\* first, and a reported gap of 6,975.
C20_Witness ==
    /\ CalledAnalyzeMarket
    /\ Len(agent_call.result.mandi_options) = 2
    /\ agent_call.found = <<ItemHaat, ItemPune>>
    /\ NetProfits(agent_call.result.mandi_options) = {10475 * 100, 3500 * 100}
    /\ agent_call.result.profit_gap = [difference |-> 6975]

\* ------------------------------------------------------------------------
\* Properties of the synthesized market items
\* ------------------------------------------------------------------------

\* The call of analyze_market_for_crop found no record of the crop in either
\* lookup, so the items are the synthesized ones of lines 334-349
SynthesizedItemsUsed ==
    /\ CalledAnalyzeMarket
    /\ agent_call.found = << >>
    /\ SelectSeq(agent_call.all_items,
                 LAMBDA m : CropNameContains(DictGet(m, "cropName", ""),
                                             agent_call.crop_type)) = << >>

\* C21: when the lookup returns no record of the crop,
\* analyze_market_for_crop returns a non-empty option list and every
\* synthesized price lies within 20 percent of the crop's default price
\* (prices in paise, the default price in rupees).
C21_SynthesizedPricesWithinTwentyPercent ==
    SynthesizedItemsUsed =>
        LET options == agent_call.result.mandi_options
            default_price == get_crop_default_price(agent_call.crop_type).price
        IN  /\ options # << >>
            /\ \A i \in 1..Len(options) :
                  /\ options[i].current_price >= 80 * default_price
                  /\ options[i].current_price <= 120 * default_price

\* ------------------------------------------------------------------------
\* Properties of the generative advisory call
\* ------------------------------------------------------------------------

CalledAnalyzeFreshness == agent_call.op = "analyze_freshness"

CalledGetAiMarketInsight == agent_call.op = "get_ai_market_insight"

AdvisoryCallDone ==
    /\ CalledAnalyzeFreshness \/ CalledGetAiMarketInsight
    /\ agent_call.at = "done"

\* The advisory call of analyze_freshness failed: the library or the API key
\* is missing, the call raised, or its answer has no text, does not parse,
\* or is not a valid analysis
FreshnessAdvisoryFailed ==
    \/ ~agent_call.environment.library
    \/ ~agent_call.environment.api_key
    \/ /\ ~IsNone(agent_call.response)
       /\ \/ agent_call.response.kind # "text"
          \/ "error" \in DOMAIN agent_call.response.parsed
          \/ "object" \notin DOMAIN agent_call.response.parsed.value
          \/ ~FreshnessAnalysisValidates(agent_call.response.parsed.value.object)

InsightAdvisoryFailed ==
    \/ ~agent_call.environment.library
    \/ ~agent_call.environment.api_key
    \/ ~IsNone(agent_call.response) /\ agent_call.response.kind # "text"

\* C22: on any failure of the advisory call (library missing, no API key,
\* exception, unparsable or invalid response) the caller does not raise and
\* gets the rule-based result: get_ai_market_insight returns
\* generate_rule_based_insight of its options, analyze_freshness returns
\* create_fallback_analysis of its sensor data.
C22_AdvisoryFailureGivesFallback ==
    /\ (AdvisoryCallDone /\ CalledGetAiMarketInsight /\ InsightAdvisoryFailed) =>
          agent_call.outcome = Returned(generate_rule_based_insight(agent_call.input))
    /\ (AdvisoryCallDone /\ CalledAnalyzeFreshness /\ FreshnessAdvisoryFailed) =>
          agent_call.outcome = Returned(create_fallback_analysis(agent_call.input))
    /\ (CalledAnalyzeMarket /\ agent_call.advisory.kind # "text") =>
          agent_call.result.market_insight =
             generate_rule_based_insight(agent_call.result.mandi_options)

AwaitingAdvisory ==
    /\ CalledAnalyzeFreshness \/ CalledGetAiMarketInsight
    /\ agent_call.at = "generate_content"

\* C23: the advisory call never blocks its caller for ever: a call of
\* get_ai_market_insight or analyze_freshness that waits for the advisory
\* service eventually returns, whether or not the service ever responds.
C23_AdvisoryCallReturns == AwaitingAdvisory ~> AdvisoryCallDone

\* ------------------------------------------------------------------------
\* Properties of the synthetic forecast
\* ------------------------------------------------------------------------

\* C24: when no real forecast is available the synthetic forecast is
\* deterministic: two requests with the same inputs, both without a real
\* forecast, produce the same sequence of weather samples.
C24_SyntheticForecastDeterministic ==
    (/\ agent_call.op = "get_weather_forecast"
     /\ ~IsNone(agent_call.previous)
     /\ agent_call.api.kind # "answers"
     /\ agent_call.previous.api.kind # "answers") =>
        agent_call.forecast.forecasts = agent_call.previous.forecast.forecasts

\* ------------------------------------------------------------------------
\* Properties of the freshness score of the pipeline
\* ------------------------------------------------------------------------

CalledExecuteFreshnessStage == agent_call.op = "_execute_freshness_stage"

\* C25: for every valid crop observation (temperature in [-10, 60], humidity
\* in [0, 100], age >= 0) the freshness stage succeeds with a score between
\* 0 and 100 (thousandths) whose level is the tier of the score under the
\* thresholds 80 / 60 / 40 / 20.
C25_ScoreBoundedLevelConsistent ==
    CalledExecuteFreshnessStage =>
        LET data == agent_call.result.data
            score == data.freshness_score
        IN  /\ agent_call.result.status = "success"
            /\ 0 <= score /\ score <= 100000
            /\ data.freshness_level = "EXCELLENT" <=> score >= 80000
            /\ data.freshness_level = "GOOD" <=> (60000 <= score /\ score < 80000)
            /\ data.freshness_level = "FAIR" <=> (40000 <= score /\ score < 60000)
            /\ data.freshness_level = "POOR" <=> (20000 <= score /\ score < 40000)
            /\ data.freshness_level = "CRITICAL" <=> score < 20000

\* An observation far outside both optimal ranges: both environment scores
\* are floored at 0
C25_Witness ==
    /\ CalledExecuteFreshnessStage
    /\ DictGet(agent_call.crop_data, "temperature", 25) = 60
    /\ DictGet(agent_call.crop_data, "humidity", 70) = 0
    /\ agent_call.result.data.component_scores.temperature = 0
    /\ agent_call.result.data.component_scores.humidity = 0

\* ------------------------------------------------------------------------
\* C26: in the selling dialogue assign_driver_for_transport is called only by
\* a turn that found the stored conversation in awaiting_confirmation with
\* crop, quantity and mandi all selected and whose message is an affirmative
\* confirmation; and the three are selected in that order: the quantity is
\* stored only when the crop is, the mandi only when the quantity is.
\* ------------------------------------------------------------------------

StoredConversation == get_conversation_state(db, ConversationPhone)

Affirmative == {"yes", "y", "haan", "ha", "confirm", "ok"}

SelectedInOrder(state) ==
    /\ ~IsNone(state.quantity_kg) => ~IsNone(state.selected_crop)
    /\ ~IsNone(state.selected_mandi) => ~IsNone(state.quantity_kg)

C26_DriverAssignedOnlyAtConfirmation ==
    [][/\ last_turn'.assign_called =>
             /\ ~IsNone(StoredConversation)
             /\ StoredConversation.current_step = "awaiting_confirmation"
             /\ ~IsNone(StoredConversation.selected_crop)
             /\ ~IsNone(StoredConversation.quantity_kg)
             /\ ~IsNone(StoredConversation.selected_mandi)
             /\ MessageLower(last_turn'.message) \in Affirmative
       /\ db'.bookings # db.bookings => last_turn'.assign_called
       /\ ~IsNone(StoredConversation') => SelectedInOrder(StoredConversation')]_vars

\* A booking was made by the confirmation of an order.
C26_Witness ==
    /\ last_turn.assign_called
    /\ last_turn.step = "awaiting_confirmation"
    /\ last_turn.reply = "booking_confirmed"
    /\ Len(db.bookings) = 2
    /\ Len(db.farmers) = 1
    /\ Len(db.farmers[1].history) = 2
    /\ db.farmers[1].history[1].driver_id = "D003"
    /\ db.farmers[1].history[2].driver_id = "D001"

\* ------------------------------------------------------------------------
\* C27 as stated: a driver assigned by assign_driver_for_transport was
\* Available, has a vehicle capacity >= quantity_kg, and no Available
\* driver with a capacity >= quantity_kg has a smaller capacity.
\* ------------------------------------------------------------------------

CalledAssignDriver == agent_call.op = "assign_driver_for_transport"

DriverAssigned == CalledAssignDriver /\ ~IsNone(agent_call.result.assignment)

AssignedDriver == FindOne(agent_call.db.drivers, "id", agent_call.result.assignment.driver_id)

Suitable(driver) == DriverCapacity(driver) >= agent_call.quantity_kg

SmallestSuitableOf(drivers) ==
    /\ Suitable(AssignedDriver)
    /\ \A i \in 1..Len(drivers) :
          Suitable(drivers[i])
             => DriverCapacity(AssignedDriver) <= DriverCapacity(drivers[i])

Fetched == AvailableDrivers(agent_call.db.drivers)

NoDriverAvailable ==
    \A i \in 1..Len(agent_call.db.drivers) :
       agent_call.db.drivers[i].status # "Available"

HistoryOf(farmers) ==
    IF IsNone(FindOne(farmers, "id", DirectFarmerId)) THEN << >>
    ELSE FindOne(farmers, "id", DirectFarmerId).history

C28_NoAvailableDriverChangesNothing ==
    CalledAssignDriver /\ NoDriverAvailable =>
       /\ IsNone(agent_call.result.assignment)
       /\ agent_call.result.db.bookings = agent_call.db.bookings
       /\ agent_call.result.db.drivers = agent_call.db.drivers
       /\ HistoryOf(agent_call.result.db.farmers) = HistoryOf(agent_call.db.farmers)

\* The only driver is Busy and the farmer has a sale in the history.
C28_Witness ==
    /\ CalledAssignDriver
    /\ NoDriverAvailable
    /\ Len(agent_call.db.drivers) = 1
    /\ Len(HistoryOf(agent_call.db.farmers)) = 1
    /\ IsNone(agent_call.result.assignment)

\* ------------------------------------------------------------------------
\* C29: every invocation of execute_workflow, whatever its final status,
\* appends exactly one record to workflow_history when it returns; no other
\* step changes the history, so the records before stay in place, and after
\* n invocations the history holds their n records in completion order.
\* ------------------------------------------------------------------------

C29_OneRecordPerInvocation ==
    [][/\ IF pc # "returned" /\ pc' = "returned"
          THEN /\ results'.status \in {"completed", "error"}
               /\ workflow_history' =
                     Append(workflow_history,
                            [workflow_id |-> results'.workflow_id,
                             status |-> results'.status])
          ELSE workflow_history' = workflow_history
       /\ pc' \in {"idle", "returned"} =>
             /\ Len(workflow_history') = invocations'
             /\ \A i \in 1..Len(workflow_history') :
                   workflow_history'[i].workflow_id = i]_vars

\* Two invocations have returned, the first in error, the second completed.
C29_Witness ==
    /\ pc = "returned"
    /\ invocations = 2
    /\ Len(workflow_history) = 2
    /\ workflow_history[1].status = "error"
    /\ workflow_history[2].status = "completed"

\* ------------------------------------------------------------------------
\* C30: for every limit >= 0 and history of n records,
\* get_workflow_history(limit) returns exactly the min(limit, n) most recent
\* records in chronological order, and never more than limit records.
\* ------------------------------------------------------------------------

CalledGetWorkflowHistory == agent_call.op = "get_workflow_history"

C30_HistoryLimit ==
    CalledGetWorkflowHistory =>
       LET n == Len(agent_call.history)
           k == Min(agent_call.limit, n)
       IN  /\ agent_call.result = SubSeq(agent_call.history, n - k + 1, n)
           /\ Len(agent_call.result) <= agent_call.limit

\* ------------------------------------------------------------------------
\* C31: from every step of the dialogue a message containing a start keyword
\* discards the stored progress and starts a new conversation: the stored
\* step becomes awaiting_name for an unknown phone number, awaiting_crop for
\* a known farmer, with crop, quantity and mandi unset.
\* ------------------------------------------------------------------------

\* The message of a turn contains a start keyword.
StartKeywordTurn(turn) ==
    turn.message # "POST /book" /\ ContainsStartKeyword(MessageLower(turn.message))

KnownFarmer == ~IsNone(FindOne(db.farmers, "phone", ConversationPhone))

C31_StartKeywordRestarts ==
    [][StartKeywordTurn(last_turn') =>
          /\ ~IsNone(StoredConversation')
          /\ StoredConversation'.current_step =
                IF KnownFarmer THEN "awaiting_crop" ELSE "awaiting_name"
          /\ IsNone(StoredConversation'.selected_crop)
          /\ IsNone(StoredConversation'.quantity_kg)
          /\ IsNone(StoredConversation'.selected_mandi)
          /\ IsNone(StoredConversation'.market_analysis)
          /\ db'.farmers = db.farmers
          /\ db'.bookings = db.bookings]_vars

\* The choice of a mandi was dropped by a mandi's name holding a keyword.
C31_Witness ==
    /\ last_turn.message = "Nashik Mandi"
    /\ last_turn.step = "awaiting_mandi_choice"
    /\ KnownFarmer
    /\ StoredConversation.current_step = "awaiting_crop"
    /\ IsNone(StoredConversation.selected_crop)
    /\ Len(db.bookings) = 1

\* ------------------------------------------------------------------------
\* C32: registration makes progress: in awaiting_name every non-empty reply
\* is stored as the name of the farmer and moves the conversation to
\* awaiting_village, and the following reply moves it to awaiting_crop with
\* the farmer registered.
\* ------------------------------------------------------------------------

\* A turn of the dialogue that answered the prompt of the given step
ReplyAt(turn, step) ==
    turn.message \notin {"", "POST /book"} /\ turn.step = step

C32_RegistrationProgress ==
    [][/\ ReplyAt(last_turn', "awaiting_name") =>
             /\ ~IsNone(StoredConversation')
             /\ StoredConversation'.current_step = "awaiting_village"
             /\ StoredConversation'.farmer_name = Str(MessageTitle(last_turn'.message))
       /\ ReplyAt(last_turn', "awaiting_village") =>
             /\ ~IsNone(StoredConversation')
             /\ StoredConversation'.current_step = "awaiting_crop"
             /\ ~IsNone(FindOne(db'.farmers, "phone", ConversationPhone))]_vars

\* ------------------------------------------------------------------------
\* C33: in awaiting_mandi_choice a reply that is the number of an offered
\* option, or that contains the name of an offered mandi, selects that mandi
\* with its net profit and moves the conversation to awaiting_confirmation,
\* for every mandi that can be offered.
\* ------------------------------------------------------------------------

OfferedOptions == StoredConversation.market_analysis.mandi_options

\* The options a reply names: the one of its number, else those whose name
\* the text contains
OptionsNamedBy(message) ==
    IF ~IsNone(IntOf(message))
    THEN {i \in 1..Len(OfferedOptions) : i = IntOf(message).num}
    ELSE {i \in 1..Len(OfferedOptions) :
             MandiNameInMessage(OfferedOptions[i].mandi_name, MessageLower(message))}

C33_MandiChoiceSelects ==
    [][ReplyAt(last_turn', "awaiting_mandi_choice")
       /\ OptionsNamedBy(last_turn'.message) # {} =>
          /\ ~IsNone(StoredConversation')
          /\ StoredConversation'.current_step = "awaiting_confirmation"
          /\ \E i \in OptionsNamedBy(last_turn'.message) :
                /\ StoredConversation'.selected_mandi = Str(OfferedOptions[i].mandi_name)
                /\ StoredConversation'.expected_profit = Num(OfferedOptions[i].net_profit)]_vars

\* ------------------------------------------------------------------------
\* C34: an invalid reply that contains no start keyword leaves the stored
\* conversation state unchanged and triggers no market analysis or driver
\* assignment: a quantity with no digits, <= 0 or > 10000 in
\* awaiting_quantity; an out-of-range number or unmatched text in
\* awaiting_mandi_choice; anything other than a yes/no word in
\* awaiting_confirmation.
\* ------------------------------------------------------------------------

\* The quantity a text states, None for a text with no digits
QuantityStated(message) ==
    CASE message = "100 kg" -> Num(100)
      [] message = "-5" -> Num(-5)
      [] message = "20000" -> Num(20000)
      [] message = "0" -> Num(0)
      [] message = "1" -> Num(1)
      [] message = "2" -> Num(2)
      [] OTHER -> None

Refusing == {"no", "n", "nahi", "cancel"}

InvalidReply(turn) ==
    /\ ~StartKeywordTurn(turn)
    /\ \/ /\ ReplyAt(turn, "awaiting_quantity")
          /\ \/ IsNone(QuantityStated(turn.message))
             \/ /\ ~IsNone(QuantityStated(turn.message))
                /\ \/ QuantityStated(turn.message).num <= 0
                   \/ QuantityStated(turn.message).num > 10000
       \/ /\ ReplyAt(turn, "awaiting_mandi_choice")
          /\ OptionsNamedBy(turn.message) = {}
       \/ /\ ReplyAt(turn, "awaiting_confirmation")
          /\ MessageLower(turn.message) \notin Affirmative \cup Refusing

C34_InvalidReplyChangesNothing ==
    [][InvalidReply(last_turn') => db' = db /\ ~last_turn'.assign_called]_vars

\* ------------------------------------------------------------------------
\* C35: after a yes or a no reply in awaiting_confirmation the stored
\* conversation state is deleted, whether or not a driver was assigned, so
\* that the next message starts a new conversation and no confirmation can
\* be replayed.
\* ------------------------------------------------------------------------

YesOrNoReply(turn) ==
    /\ ReplyAt(turn, "awaiting_confirmation")
    /\ MessageLower(turn.message) \in Affirmative \cup Refusing

C35_ConfirmationDeletesState ==
    [][YesOrNoReply(last_turn') => IsNone(StoredConversation')]_vars

\* ------------------------------------------------------------------------
\* C36: under any interleaving of concurrent assign_driver_for_transport
\* calls a driver is never assigned to two bookings at once.
\* ------------------------------------------------------------------------

ActiveStatuses == {"assigned", "confirmed", "in_transit"}

ActiveBookings == {i \in 1..Len(db.bookings) : db.bookings[i].status \in ActiveStatuses}

C36_NoDriverDoubleBooked ==
    \A i, j \in ActiveBookings :
       i # j => db.bookings[i].driver_id # db.bookings[j].driver_id

\* ------------------------------------------------------------------------
\* C37: after any sequence of driver assignments and booking status updates
\* a driver whose status is Available has no booking in an active status
\* (assigned, confirmed, in_transit), and a driver is set back to Available
\* only when its own current booking becomes delivered or cancelled.
\* ------------------------------------------------------------------------

DriverIsAvailable(d, i) == DictGet(d.drivers[i], "status", "") = "Available"

HasActiveBooking(d, i) ==
    \E b \in 1..Len(d.bookings) :
       /\ d.bookings[b].driver_id = d.drivers[i].id
       /\ d.bookings[b].status \in ActiveStatuses

\* The booking the driver is on ends in this step
CurrentBookingEnds(i) ==
    \E b \in 1..Len(db.bookings) :
       /\ "currentBooking" \in DOMAIN db.drivers[i]
       /\ db.bookings[b].booking_id = db.drivers[i].currentBooking
       /\ db.bookings[b].status \notin {"delivered", "cancelled"}
       /\ db'.bookings[b].status \in {"delivered", "cancelled"}

CalledWebhook == agent_call.op = "whatsapp_webhook"

\* The database-backed handler was called and raised
MarketHandlerRaised ==
    /\ CalledWebhook
    /\ \E h \in 1..Len(agent_call.result.handlers) :
          agent_call.result.handlers[h] = "market"
    /\ agent_call.fails.market

C38_OneOutboundMessage ==
    CalledWebhook =>
       /\ Len(agent_call.result.sent) = 1
       /\ Len(agent_call.result.sids) = 1
       /\ agent_call.result.sent[1] \in
             {"weather reply", "market reply", "fallback reply", ErrorMessage}
       /\ agent_call.result.sent[1] = ErrorMessage => agent_call.fails.fallback
       /\ agent_call.result.response = ""
       /\ MarketHandlerRaised =>
             /\ agent_call.result.handlers = <<"market", "fallback">>
             /\ ~agent_call.fails.fallback
                   => agent_call.result.sent = <<"fallback reply">>

\* The market handler raised, the fallback answered, Twilio refused the
\* message and the outgoing log failed.
C38_Witness ==
    /\ MarketHandlerRaised
    /\ agent_call.result.sent = <<"fallback reply">>
    /\ IsNone(agent_call.result.sids[1])
    /\ agent_call.fails.outgoing_log
    /\ agent_call.result.logged = <<"incoming">>

====
